---- MODULE Spec2Model ----
(***************************************************************************)
(* A model of the measurement core of cgrep's benchmarking scripts:        *)
(*   scripts/agent_plan_perf_gate.py, scripts/index_perf_gate.py,          *)
(*   scripts/benchmark_search_option_performance.py, scripts/token_gate.py *)
(*   scripts/benchmark_codex_agent_efficiency.py.                          *)
(*                                                                         *)
(* Numbers.  A raw latency sample is an integer number of microseconds     *)
(* (0.001 ms).  A float the code computes is the exact rational            *)
(* [n |-> numerator, d |-> denominator] (d > 0) of its unit (ms, percent); *)
(* binary floating-point error is not modelled.  round(x, 2) is the        *)
(* integer number of hundredths nearest to x, ties to even, so a rounded   *)
(* latency is a number of hundredths of a millisecond (1 = 0.01 ms) and a  *)
(* rounded percentage a number of hundredths of a percent (1000 = 10.0 %). *)
(*                                                                         *)
(* A call that raises returns [exc |-> <exception name>]; a call that      *)
(* returns v returns [exc |-> "none", val |-> v].                          *)
(***************************************************************************)
EXTENDS Integers, Sequences, FiniteSets, TLC

VARIABLES
    runs, warmup, files,               \* --runs, --warmup and --files
    arg, fn, ret,                      \* a pure function, its input and its result
    sfn, spc, si, out,                 \* one call of the sampler: its frame
    calls, out_from,                   \* history: the invocations, who made out[i]
    summary,                           \* the summary made of the returned list
    gate, pc, baseline, candidate,     \* the decision stage of a regression gate
    regressions, absolute_deltas, failed, exit_status,
    env, binary, metric, measured_samples,      \* main: the binaries, the measurement under way
    candidate_percentiles, baseline_percentiles,
    invocations,                       \* history: must-succeed invocations started
    rc_pc, rc_idx, rc_latencies, rc_errors, rc_success_count, rc_result, \* run_case
    e_pc, args,                        \* benchmark_agent_token_efficiency.main
    index_run, e_summary, e_exit,
    baseline_tiers, cgrep_tiers,
    grep_run, ordered_files, baseline_attempts, baseline_context_parts,
    baseline_tokens_to_completion, baseline_latency_to_completion_ms,
    baseline_completed, previous_file_cap,
    locate_run, locate_ids, cgrep_attempts, cgrep_context_parts,
    cgrep_tokens_to_completion, cgrep_latency_to_completion_ms,
    cgrep_completed, expanded_so_far,
    expand_runs,                       \* history: the expand invocations issued
    scenario_results,
    tg_pc, tg_env, indexed, query,     \* token_gate.main
    reductions, baseline_latencies, cgrep_latencies, misses,
    tg_calls,                          \* history: the invocations of token_gate
    tg_summary, tg_exit,
    cx_pc, codex_results, codex_summary \* benchmark_codex_agent_efficiency.main

fnVars      == <<arg, fn, ret>>
cfgVars     == <<runs, warmup, files>>
samplerVars == <<sfn, spc, si, out, calls, out_from, summary>>
gateVars    == <<gate, pc, baseline, candidate, regressions, absolute_deltas,
                 failed, exit_status>>
gateRest    == <<gate, baseline, candidate, regressions, absolute_deltas, failed>>
mainRest    == <<env, binary, metric, measured_samples, candidate_percentiles,
                 baseline_percentiles>>
mainVars    == <<mainRest, invocations>>
runCaseVars == <<rc_pc, rc_idx, rc_latencies, rc_errors, rc_success_count, rc_result>>
baselineVars == <<grep_run, ordered_files, baseline_attempts, baseline_context_parts,
                  baseline_tokens_to_completion, baseline_latency_to_completion_ms,
                  baseline_completed, previous_file_cap>>
cgrepVars   == <<locate_run, locate_ids, cgrep_attempts, cgrep_context_parts,
                 cgrep_tokens_to_completion, cgrep_latency_to_completion_ms,
                 cgrep_completed, expanded_so_far, expand_runs>>
reportVars  == <<index_run, e_summary, e_exit>>
engineVars  == <<e_pc, args, baseline_tiers, cgrep_tiers, baselineVars, cgrepVars,
                 scenario_results, reportVars>>
tokenGateVars == <<tg_pc, tg_env, indexed, query, reductions, baseline_latencies,
                   cgrep_latencies, misses, tg_calls, tg_summary, tg_exit>>
codexVars   == <<cx_pc, codex_results, codex_summary>>
vars        == <<cfgVars, fnVars, samplerVars, gateVars, mainVars, runCaseVars,
                 engineVars, tokenGateVars, codexVars>>

-----------------------------------------------------------------------------
(* Bounds of the model.                                                    *)

MaxLen == 3          \* longest exhaustively enumerated sample list
LongLen == 20        \* length of the long sample lists (0.95 * n < n from 20 on)
MaxRuns == 3         \* largest --runs
MaxWarmup == 2       \* largest --warmup
MainMaxRuns == 2     \* largest --runs of a whole run of a gate
MainMaxWarmup == 1   \* largest --warmup of a whole run of a gate

-----------------------------------------------------------------------------
(* Arithmetic on the exact values of floats.                               *)

Rat(n, d) == [n |-> n, d |-> d]

RatLess(x, y) == x.n * y.d < y.n * x.d

RatLeq(x, y) == x.n * y.d <= y.n * x.d

RatEq(x, y) == x.n * y.d = y.n * x.d

Returned(v) == [exc |-> "none", val |-> v]

Raised(e) == [exc |-> e]

Max(a, b) == IF a >= b THEN a ELSE b

Min(a, b) == IF a <= b THEN a ELSE b

\* math.ceil(n / d) for d > 0
ceil(n, d) == -((-n) \div d)

\* round(n / d) to the nearest integer, ties to even (d > 0)
round_half_even(n, d) ==
    LET q == n \div d
        r == n - q * d
    IN  IF 2 * r < d THEN q
        ELSE IF 2 * r > d THEN q + 1
        ELSE IF q % 2 = 0 THEN q ELSE q + 1

\* round(x, 2), as a number of hundredths
round2(x) == round_half_even(100 * x.n, x.d)

\* a latency of us microseconds, in ms
Ms(us) == Rat(us, 1000)

RECURSIVE insort(_, _)
insort(x, s) ==
    IF s = <<>> THEN <<x>>
    ELSE IF x <= Head(s) THEN <<x>> \o s
    ELSE <<Head(s)>> \o insort(x, Tail(s))

\* sorted(values)
RECURSIVE sorted(_)
sorted(s) == IF s = <<>> THEN <<>> ELSE insort(Head(s), sorted(Tail(s)))

\* min(values), max(values) of a non-empty list
SeqMin(s) == CHOOSE x \in {s[i] : i \in DOMAIN s} : \A j \in DOMAIN s : x <= s[j]

SeqMax(s) == CHOOSE x \in {s[i] : i \in DOMAIN s} : \A j \in DOMAIN s : x >= s[j]

\* statistics.median(data): raises StatisticsError on no data
median(data) ==
    LET ordered == sorted(data)
        n == Len(ordered)
    IN  IF n = 0 THEN Raised("StatisticsError")
        ELSE IF n % 2 = 1 THEN Returned(Rat(ordered[(n \div 2) + 1], 1))
        ELSE Returned(Rat(ordered[n \div 2] + ordered[(n \div 2) + 1], 2))

-----------------------------------------------------------------------------
(* The percentile summarizers of the two gates.                            *)

\* a plausible bug: the rank rounded down instead of up
percentile_nearest_floor(values, percentile) ==
    LET ordered == sorted(values)
    IN  IF ordered = <<>> THEN 0
        ELSE IF percentile <= 0 THEN ordered[1]
        ELSE IF percentile >= 100 THEN ordered[Len(ordered)]
        ELSE ordered[Max(1, (percentile * Len(ordered)) \div 100)]

\* agent_plan_perf_gate.percentile_nearest
percentile_nearest(values, percentile) ==
    LET ordered == sorted(values)
    IN  IF ordered = <<>> THEN 0
        ELSE IF percentile <= 0 THEN ordered[1]
        ELSE IF percentile >= 100 THEN ordered[Len(ordered)]
        ELSE LET rank == Max(1, ceil(percentile * Len(ordered), 100))
             IN  ordered[rank]

\* index_perf_gate.percentile_nearest_rank
percentile_nearest_rank(values, percentile) ==
    LET ordered == sorted(values)
    IN  IF ordered = <<>> THEN 0
        ELSE IF percentile <= 0 THEN ordered[1]
        ELSE IF percentile >= 100 THEN ordered[Len(ordered)]
        ELSE LET rank == Max(1, ceil(percentile * Len(ordered), 100))
             IN  ordered[rank]

\* a plausible bug: the lower middle value instead of the mean of the two
summarize_lower_median(samples) ==
    IF samples = <<>> THEN Raised("StatisticsError")
    ELSE Returned([p50 |-> round2(Ms(sorted(samples)[(Len(samples) + 1) \div 2])),
                   p95 |-> round2(Ms(percentile_nearest(samples, 95)))])

\* agent_plan_perf_gate.summarize: p50 and p95 in hundredths of a ms
summarize(samples) ==
    LET m == median(samples)
    IN  IF m.exc # "none" THEN m
        ELSE Returned([p50 |-> round2(Rat(m.val.n, m.val.d * 1000)),
                       p95 |-> round2(Ms(percentile_nearest(samples, 95)))])

\* index_perf_gate.summarize_latency_ms
summarize_latency_ms(samples) ==
    LET m == median(samples)
    IN  IF m.exc # "none" THEN m
        ELSE Returned([p50 |-> round2(Rat(m.val.n, m.val.d * 1000)),
                       p95 |-> round2(Ms(percentile_nearest_rank(samples, 95)))])

-----------------------------------------------------------------------------
(* The interpolating percentile of the benchmarks and of token_gate.       *)

\* arr[lo] * (1 - frac) + arr[hi] * frac at pos = (len - 1) * p / 100
interpolate(arr, p) ==
    LET pos100 == (Len(arr) - 1) * p          \* 100 * pos
        lo == pos100 \div 100                 \* 0-based
        hi == ceil(pos100, 100)
        frac100 == pos100 - 100 * lo
    IN  IF lo = hi THEN Rat(arr[lo + 1], 1)
        ELSE Rat(arr[lo + 1] * (100 - frac100) + arr[hi + 1] * frac100, 100)

\* benchmark_search_option_performance.percentile
search_percentile(values, p) ==
    IF values = <<>> THEN Rat(0, 1)
    ELSE IF p <= 0 THEN Rat(SeqMin(values), 1)
    ELSE IF p >= 100 THEN Rat(SeqMax(values), 1)
    ELSE interpolate(sorted(values), p)

\* token_gate.percentile
token_gate_percentile(values, p) ==
    IF values = <<>> THEN Rat(0, 1)
    ELSE LET arr == sorted(values)
         IN  IF p <= 0 THEN Rat(arr[1], 1)
             ELSE IF p >= 100 THEN Rat(arr[Len(arr)], 1)
             ELSE interpolate(arr, p)

\* benchmark_codex_agent_efficiency.percentile
codex_percentile(values, p) ==
    IF values = <<>> THEN Rat(0, 1)
    ELSE IF p <= 0 THEN Rat(SeqMin(values), 1)
    ELSE IF p >= 100 THEN Rat(SeqMax(values), 1)
    ELSE interpolate(sorted(values), p)

-----------------------------------------------------------------------------
(* The regression comparator.                                              *)

\* a / b on floats: raises ZeroDivisionError when b = 0
truediv(a, b) ==
    IF b = 0 THEN Raised("ZeroDivisionError")
    ELSE IF b > 0 THEN Returned(Rat(a, b))
    ELSE Returned(Rat(-a, -b))

\* a plausible bug: only a negative baseline is guarded
regression_pct_unguarded_zero(before, after) ==
    IF before < 0 THEN Returned(Rat(0, 1))
    ELSE LET q == truediv(after - before, before)
         IN  IF q.exc # "none" THEN q ELSE Returned(Rat(q.val.n * 100, q.val.d))

\* agent_plan_perf_gate.regression_pct, in percent
regression_pct(before, after) ==
    IF before <= 0 THEN Returned(Rat(0, 1))
    ELSE LET q == truediv(after - before, before)
         IN  IF q.exc # "none" THEN q ELSE Returned(Rat(q.val.n * 100, q.val.d))

\* agent_plan_perf_gate.regression_abs_ms
regression_abs_ms(before, after) == after - before

\* index_perf_gate.regression_pct, in percent
index_regression_pct(before, after) ==
    IF before <= 0 THEN Returned(Rat(0, 1))
    ELSE LET q == truediv(after - before, before)
         IN  IF q.exc # "none" THEN q ELSE Returned(Rat(q.val.n * 100, q.val.d))

\* index_perf_gate.throughput_drop_pct, in percent
throughput_drop_pct(before, after) ==
    IF before <= 0 THEN Returned(Rat(0, 1))
    ELSE LET q == truediv(before - after, before)
         IN  IF q.exc # "none" THEN q ELSE Returned(Rat(q.val.n * 100, q.val.d))

\* a plausible bug: the reduction is divided without the guard
reduction_percent_unguarded(baseline_tokens, cgrep_tokens) ==
    LET q == truediv(baseline_tokens - cgrep_tokens, baseline_tokens)
    IN  IF q.exc # "none" THEN q ELSE Returned(Rat(q.val.n * 100, q.val.d))

\* benchmark_agent_token_efficiency.main: reduction_percent of a scenario,
\* token_reduction of the summary, in percent
reduction_percent(baseline_tokens, cgrep_tokens) ==
    IF baseline_tokens > 0
    THEN LET q == truediv(baseline_tokens - cgrep_tokens, baseline_tokens)
         IN  IF q.exc # "none" THEN q ELSE Returned(Rat(q.val.n * 100, q.val.d))
    ELSE Returned(Rat(0, 1))

\* math.inf, as a ratio with the denominator 0
inf == Rat(1, 0)

\* a plausible bug: the ratio is divided without the guard
compression_x_unguarded(baseline_total_tokens, cgrep_total_tokens) ==
    truediv(baseline_total_tokens, cgrep_total_tokens)

\* benchmark_agent_token_efficiency.main: compression = math.inf if
\* cgrep_total_tokens == 0 else baseline_total_tokens / cgrep_total_tokens
compression_x(baseline_total_tokens, cgrep_total_tokens) ==
    IF cgrep_total_tokens = 0 THEN Returned(inf)
    ELSE truediv(baseline_total_tokens, cgrep_total_tokens)

-----------------------------------------------------------------------------
(* The variables a specification does not use keep these values.           *)

FnIdle == arg = [kind |-> "none"] /\ fn = "none" /\ ret = Raised("none")

SamplerIdle ==
    /\ sfn = "none" /\ spc = "idle" /\ si = 0
    /\ out = <<>> /\ calls = <<>> /\ out_from = <<>> /\ summary = Raised("none")

GateIdle ==
    /\ gate = "none" /\ pc = "idle" /\ baseline = <<>> /\ candidate = <<>>
    /\ regressions = <<>> /\ absolute_deltas = <<>> /\ failed = <<>>
    /\ exit_status = -1

MainIdle ==
    /\ env = <<>> /\ binary = "none" /\ metric = 0 /\ measured_samples = <<>>
    /\ candidate_percentiles = <<>> /\ baseline_percentiles = <<>>
    /\ invocations = 0

RunCaseIdle ==
    /\ rc_pc = "idle" /\ rc_idx = 0 /\ rc_latencies = <<>>
    /\ rc_errors = <<>> /\ rc_success_count = 0 /\ rc_result = <<>>

CfgIdle == runs = 0 /\ warmup = 0 /\ files = 0

BaselineIdle ==
    /\ grep_run = <<>> /\ ordered_files = <<>> /\ baseline_attempts = <<>>
    /\ baseline_context_parts = <<>> /\ baseline_tokens_to_completion = 0
    /\ baseline_latency_to_completion_ms = 0 /\ baseline_completed = FALSE
    /\ previous_file_cap = 0

CgrepIdle ==
    /\ locate_run = <<>> /\ locate_ids = <<>> /\ cgrep_attempts = <<>>
    /\ cgrep_context_parts = <<>> /\ cgrep_tokens_to_completion = 0
    /\ cgrep_latency_to_completion_ms = 0 /\ cgrep_completed = FALSE
    /\ expanded_so_far = 0 /\ expand_runs = <<>>

ReportIdle == index_run = <<>> /\ e_summary = <<>> /\ e_exit = -1

TokenGateIdle ==
    /\ tg_pc = "idle" /\ tg_env = <<>> /\ indexed = <<>> /\ query = 0
    /\ reductions = <<>> /\ baseline_latencies = <<>> /\ cgrep_latencies = <<>>
    /\ misses = <<>> /\ tg_calls = <<>> /\ tg_summary = <<>> /\ tg_exit = -1

CodexIdle == cx_pc = "idle" /\ codex_results = <<>> /\ codex_summary = <<>>

EngineIdle ==
    /\ e_pc = "idle" /\ args = <<>> /\ baseline_tiers = <<>> /\ cgrep_tiers = <<>>
    /\ BaselineIdle /\ CgrepIdle /\ scenario_results = <<>> /\ ReportIdle
    /\ TokenGateIdle /\ CodexIdle

-----------------------------------------------------------------------------
(* SpecFn: the pure functions, each applied once to an input drawn from a  *)
(* bounded set.                                                            *)

\* raw latencies in microseconds: 1.234 ms, 1.236 ms, 2 ms
SampleValues == {1234, 1236, 2000}

ShortLists == UNION {[1..n -> SampleValues] : n \in 0..MaxLen}

\* LongLen samples of 2 ms, those at positions i and j of 9 ms
Outliers(i, j) == [k \in 1..LongLen |-> IF k = i \/ k = j THEN 9000 ELSE 2000]

LongLists == {Outliers(i, j) : i \in 0..LongLen, j \in 0..LongLen}

\* [10, 20, 30] and [10, 20, 30, 40] ms, and a reordering of each
ExampleLists ==
    { <<10000, 20000, 30000>>, <<30000, 10000, 20000>>,
      <<10000, 20000, 30000, 40000>>, <<40000, 20000, 10000, 30000>> }

SampleLists == ShortLists \cup LongLists \cup ExampleLists

Percentiles == {0, 50, 95, 100}

Befores == {-100, 0, 2, 100, 200}

Afters == {-50, 0, 1, 110, 115, 250}

\* token counts of a strategy: of a scenario or of the whole run
TokenCounts == {0, 1, 3, 4, 12}

FnInputs ==
    [kind : {"samples"}, values : SampleLists, p : Percentiles]
    \cup [kind : {"regression"}, before : Befores, after : Afters]
    \cup [kind : {"tokens"}, baseline_tokens : TokenCounts,
                             cgrep_tokens : TokenCounts]

InitFn ==
    /\ arg \in FnInputs /\ fn = "none" /\ ret = Raised("none")
    /\ CfgIdle /\ SamplerIdle /\ GateIdle /\ MainIdle /\ RunCaseIdle
    /\ EngineIdle

Apply(name, result) ==
    /\ fn = "none"
    /\ fn' = name
    /\ ret' = result
    /\ UNCHANGED <<arg, cfgVars, samplerVars, gateVars, mainVars, runCaseVars>>
    /\ UNCHANGED <<engineVars, tokenGateVars, codexVars>>

Call_percentile_nearest ==
    /\ arg.kind = "samples"
    /\ Apply("percentile_nearest", Returned(percentile_nearest(arg.values, arg.p)))

Call_percentile_nearest_rank ==
    /\ arg.kind = "samples"
    /\ Apply("percentile_nearest_rank",
             Returned(percentile_nearest_rank(arg.values, arg.p)))

Call_summarize ==
    /\ arg.kind = "samples" /\ arg.p = 95
    /\ Apply("summarize", summarize(arg.values))

Call_summarize_latency_ms ==
    /\ arg.kind = "samples" /\ arg.p = 95
    /\ Apply("summarize_latency_ms", summarize_latency_ms(arg.values))

Call_search_percentile ==
    /\ arg.kind = "samples"
    /\ Apply("search_percentile", Returned(search_percentile(arg.values, arg.p)))

Call_token_gate_percentile ==
    /\ arg.kind = "samples"
    /\ Apply("token_gate_percentile",
             Returned(token_gate_percentile(arg.values, arg.p)))

Call_codex_percentile ==
    /\ arg.kind = "samples"
    /\ Apply("codex_percentile", Returned(codex_percentile(arg.values, arg.p)))

Call_regression_pct ==
    /\ arg.kind = "regression"
    /\ Apply("regression_pct", regression_pct(arg.before, arg.after))

Call_index_regression_pct ==
    /\ arg.kind = "regression"
    /\ Apply("index_regression_pct", index_regression_pct(arg.before, arg.after))

Call_regression_abs_ms ==
    /\ arg.kind = "regression"
    /\ Apply("regression_abs_ms", Returned(regression_abs_ms(arg.before, arg.after)))

Call_reduction_percent ==
    /\ arg.kind = "tokens"
    /\ Apply("reduction_percent",
             reduction_percent(arg.baseline_tokens, arg.cgrep_tokens))

Call_compression_x ==
    /\ arg.kind = "tokens"
    /\ Apply("compression_x", compression_x(arg.baseline_tokens, arg.cgrep_tokens))

NextFn ==
    \/ Call_reduction_percent
    \/ Call_compression_x
    \/ Call_percentile_nearest
    \/ Call_percentile_nearest_rank
    \/ Call_summarize
    \/ Call_summarize_latency_ms
    \/ Call_search_percentile
    \/ Call_token_gate_percentile
    \/ Call_codex_percentile
    \/ Call_regression_pct
    \/ Call_index_regression_pct
    \/ Call_regression_abs_ms

SpecFn == InitFn /\ [][NextFn]_vars

-----------------------------------------------------------------------------
(* The sampler: collect_samples of agent_plan_perf_gate and                *)
(* collect_metric_samples of index_perf_gate.  Each invocation of the      *)
(* worker is one step; the worker runs its commands with check=True, so it *)
(* either returns a duration or raises CalledProcessError.                 *)

\* the durations (microseconds) a worker takes: three when the sampler is
\* explored alone, 100 ms and 115 ms in a whole run of a gate
Durations == {1234, 2000, 2500}

MainDurations == {100000, 115000}

\* what one worker() call can do: return a duration or raise
WorkerOutcomes ==
    [ok : {TRUE}, ms : IF pc = "idle" THEN Durations ELSE MainDurations]
    \cup {[ok |-> FALSE, ms |-> 0]}

\* an exception no one catches leaves the sampler, measure_for_binary and
\* main: the interpreter prints the traceback and exits with status 1
Uncaught ==
    /\ pc' = IF pc = "idle" THEN pc ELSE "raised"
    /\ exit_status' = IF pc = "idle" THEN exit_status ELSE 1

\* a plausible bug: one warmup run too many
warmup_range_off_by_one(w) == Max(0, w) + 1

\* range(max(0, warmup))
warmup_range(w) == Max(0, w)

\* for _ in range(max(0, warmup)): worker()   -- the result is dropped
warmup_result(samples, d) == samples

\* a plausible bug: a failed worker contributes a zero sample
worker_failure_swallowed(o) == TRUE

\* worker() returned (check=True did not raise)
worker_returned(o) == o.ok

\* one pass of the warmup loop
SamplerWarmupCall ==
    /\ spc = "warmup" /\ si < warmup_range(warmup)
    /\ \E o \in WorkerOutcomes :
        /\ invocations' = invocations + 1
        /\ calls' = Append(calls, [phase |-> "warmup", ok |-> o.ok, ms |-> o.ms])
        /\ IF worker_returned(o)
           THEN /\ si' = si + 1
                /\ UNCHANGED <<pc, exit_status>>
                /\ out' = warmup_result(out, o.ms)
                /\ out_from' = IF out' = out THEN out_from
                               ELSE Append(out_from, Len(calls) + 1)
                /\ spc' = spc
           ELSE /\ spc' = "raised"
                /\ Uncaught
                /\ UNCHANGED <<si, out, out_from>>
    /\ UNCHANGED <<sfn, summary, cfgVars, fnVars, gateRest, mainRest, runCaseVars>>
    /\ UNCHANGED <<engineVars, tokenGateVars, codexVars>>

\* the warmup loop is over: out = []
SamplerWarmupDone ==
    /\ spc = "warmup" /\ si >= warmup_range(warmup)
    /\ spc' = "measure" /\ si' = 0
    /\ UNCHANGED <<sfn, out, calls, out_from, summary>>
    /\ UNCHANGED <<cfgVars, fnVars, gateVars, mainVars, runCaseVars>>
    /\ UNCHANGED <<engineVars, tokenGateVars, codexVars>>

\* one pass of the measured loop: out.append(worker())
SamplerMeasuredCall ==
    /\ spc = "measure" /\ si < runs
    /\ \E o \in WorkerOutcomes :
        /\ invocations' = invocations + 1
        /\ calls' = Append(calls, [phase |-> "measured", ok |-> o.ok, ms |-> o.ms])
        /\ IF worker_returned(o)
           THEN /\ si' = si + 1
                /\ UNCHANGED <<pc, exit_status>>
                /\ out' = Append(out, o.ms)
                /\ out_from' = Append(out_from, Len(calls) + 1)
                /\ spc' = spc
           ELSE /\ spc' = "raised"
                /\ Uncaught
                /\ UNCHANGED <<si, out, out_from>>
    /\ UNCHANGED <<sfn, summary, cfgVars, fnVars, gateRest, mainRest, runCaseVars>>
    /\ UNCHANGED <<engineVars, tokenGateVars, codexVars>>

\* return out
SamplerReturn ==
    /\ spc = "measure" /\ si >= runs
    /\ spc' = "returned"
    /\ UNCHANGED <<sfn, si, out, calls, out_from, summary>>
    /\ UNCHANGED <<cfgVars, fnVars, gateVars, mainVars, runCaseVars>>
    /\ UNCHANGED <<engineVars, tokenGateVars, codexVars>>

-----------------------------------------------------------------------------
(* SpecSampler: one metric is sampled and its samples summarized, as       *)
(* measure_for_binary and measure do for each metric.  main has checked    *)
(* runs >= 1; the sampler itself takes any warmup.                         *)

InitSampler ==
    /\ sfn \in {"collect_samples", "collect_metric_samples"}
    /\ runs \in 1..MaxRuns /\ warmup \in -1..MaxWarmup /\ files = 1
    /\ spc = "warmup" /\ si = 0
    /\ out = <<>> /\ calls = <<>> /\ out_from = <<>>
    /\ summary = Raised("none")
    /\ FnIdle /\ GateIdle /\ MainIdle /\ RunCaseIdle
    /\ EngineIdle

\* simple_summary = summarize(simple) / cold_summary = summarize_latency_ms(...)
SummarizeSamples ==
    /\ spc = "returned"
    /\ spc' = "summarized"
    /\ summary' = IF sfn = "collect_samples" THEN summarize(out)
                  ELSE summarize_latency_ms(out)
    /\ UNCHANGED <<sfn, si, out, calls, out_from>>
    /\ UNCHANGED <<cfgVars, fnVars, gateVars, mainVars, runCaseVars>>
    /\ UNCHANGED <<engineVars, tokenGateVars, codexVars>>

NextSampler ==
    \/ SamplerWarmupCall
    \/ SamplerWarmupDone
    \/ SamplerMeasuredCall
    \/ SamplerReturn
    \/ SummarizeSamples

SpecSampler == InitSampler /\ [][NextSampler]_vars

-----------------------------------------------------------------------------
(* SpecRunCase: benchmark_search_option_performance.run_case.  run_cmd     *)
(* runs the search with check=False and a timeout: an invocation exits 0   *)
(* with JSON that holds the expected markers or not, exits non-zero,       *)
(* prints what json.loads rejects, or exceeds the timeout                  *)
(* (subprocess.TimeoutExpired, which run_case does not catch).             *)

SearchExits == {"ok_markers", "ok_no_markers", "nonzero", "bad_json", "timeout"}

\* elapsed_ms of one invocation, in microseconds
Elapsed == {1234, 2000}

InitRunCase ==
    /\ runs \in 1..MaxRuns /\ warmup \in 0..MaxWarmup /\ files = 0
    /\ rc_pc = "loop" /\ rc_idx = 0 /\ rc_latencies = <<>>
    /\ rc_errors = <<>> /\ rc_success_count = 0 /\ rc_result = <<>>
    /\ FnIdle /\ SamplerIdle /\ GateIdle /\ MainIdle
    /\ EngineIdle

\* if idx >= warmup
is_measured(idx, w) == idx >= w

\* one pass of `for idx in range(total)`
RunCaseInvocation ==
    /\ rc_pc = "loop" /\ rc_idx < warmup + runs
    /\ \E exit \in SearchExits, elapsed_ms \in Elapsed :
        IF exit = "timeout"
        THEN /\ rc_pc' = "raised"
             /\ UNCHANGED <<rc_idx, rc_latencies, rc_errors, rc_success_count>>
        ELSE /\ rc_pc' = rc_pc
             /\ rc_idx' = rc_idx + 1
             /\ IF exit \in {"nonzero", "bad_json"}
                THEN /\ rc_errors' = IF is_measured(rc_idx, warmup)
                                     THEN Append(rc_errors, exit) ELSE rc_errors
                     /\ UNCHANGED <<rc_latencies, rc_success_count>>
                ELSE /\ rc_latencies' = IF is_measured(rc_idx, warmup)
                                        THEN Append(rc_latencies, elapsed_ms)
                                        ELSE rc_latencies
                     /\ rc_success_count' =
                            IF is_measured(rc_idx, warmup) /\ exit = "ok_markers"
                            THEN rc_success_count + 1 ELSE rc_success_count
                     /\ UNCHANGED rc_errors
    /\ UNCHANGED <<rc_result, cfgVars, fnVars, samplerVars, gateVars, mainVars>>
    /\ UNCHANGED <<engineVars, tokenGateVars, codexVars>>

\* the loop is over: the returned record (latencies in hundredths of a ms)
RunCaseReturn ==
    /\ rc_pc = "loop" /\ rc_idx >= warmup + runs
    /\ rc_pc' = "returned"
    /\ rc_result' =
        [ attempted_runs |-> Len(rc_latencies),
          success_count  |-> rc_success_count,
          latency_ms_p50 |-> IF rc_latencies # <<>>
                             THEN LET m == median(rc_latencies).val
                                  IN  round2(Rat(m.n, m.d * 1000))
                             ELSE 0,
          latency_ms_p95 |-> IF rc_latencies # <<>>
                             THEN LET q == search_percentile(rc_latencies, 95)
                                  IN  round2(Rat(q.n, q.d * 1000))
                             ELSE 0,
          errors         |-> rc_errors ]
    /\ UNCHANGED <<rc_idx, rc_latencies, rc_errors, rc_success_count>>
    /\ UNCHANGED <<cfgVars, fnVars, samplerVars, gateVars, mainVars>>
    /\ UNCHANGED <<engineVars, tokenGateVars, codexVars>>

NextRunCase ==
    \/ RunCaseInvocation
    \/ RunCaseReturn

SpecRunCase == InitRunCase /\ [][NextRunCase]_vars

-----------------------------------------------------------------------------
(* The decision stage of the two gates: from the measured metrics to the   *)
(* failed list and the exit status.  A metric value is a p50 rounded to    *)
(* two decimals: a number of hundredths of a ms.                           *)

AgentMetrics == <<"plan_simple_ms", "plan_complex_ms", "plan_expand_e2e_ms">>

IndexLatencyMetrics ==
    <<"cold_index_ms", "keyword_legacy_ms", "keyword_ranking_ms",
      "identifier_ranking_ms", "scoped_ranking_ms">>

\* the keys of index_perf_gate's limits, in order
IndexLimitKeys ==
    <<"keyword_legacy_ms", "keyword_ranking_ms", "identifier_ranking_ms",
      "scoped_ranking_ms", "cold_index_throughput_drop_pct">>

Range(seq) == {seq[i] : i \in DOMAIN seq}

\* agent_plan_perf_gate: limits, in hundredths of a percent (10.0 %)
agent_limits == [k \in Range(AgentMetrics) |-> 1000]

\* agent_plan_perf_gate: absolute_floor_ms = 3.0, in hundredths of a ms
absolute_floor_ms == 300

\* index_perf_gate: limits, in hundredths of a percent (5.0 % and 10.0 %)
index_limits ==
    [k \in Range(IndexLimitKeys) |-> IF k = "keyword_legacy_ms" THEN 500 ELSE 1000]

\* index_perf_gate.measure: round(file_count / max(p50 / 1000.0, 0.001), 2),
\* in hundredths of a file per second
cold_index_throughput_fps(p50, file_count) ==
    round2(Rat(file_count * 100000, Max(p50, 100)))

\* index_perf_gate.measure: the metrics made of the five p50
index_metrics(p50s, file_count) ==
    [k \in Range(IndexLatencyMetrics) \cup {"cold_index_throughput_fps"} |->
        IF k = "cold_index_throughput_fps"
        THEN cold_index_throughput_fps(p50s["cold_index_ms"], file_count)
        ELSE p50s[k]]

\* a plausible bug: either threshold alone fails the metric
agent_is_failed_either(regression, limit, delta, floor) ==
    regression > limit \/ delta > floor

\* agent_plan_perf_gate.main: the condition of the failed list
agent_is_failed(regression, limit, delta, floor) ==
    regression > limit /\ delta > floor

\* a plausible bug: the size of the change is compared, not the regression
index_is_failed_magnitude(regression, limit) ==
    (IF regression < 0 THEN -regression ELSE regression) > limit

\* index_perf_gate.main: the condition of the failed list
index_is_failed(regression, limit) == regression > limit

\* [key for key in keys if test(key)], in the order of keys
RECURSIVE Filter(_, _)
Filter(keys, keep) ==
    IF keys = <<>> THEN <<>>
    ELSE (IF Head(keys) \in keep THEN <<Head(keys)>> ELSE <<>>)
         \o Filter(Tail(keys), keep)

\* agent_plan_perf_gate.main, from `regressions = ...` to the return
DecideAgentPlan ==
    /\ gate = "agent_plan" /\ pc = "measured"
    /\ LET reg == [k \in Range(AgentMetrics) |->
                      round2(regression_pct(baseline[k], candidate[k]).val)]
           dlt == [k \in Range(AgentMetrics) |->
                      round2(Rat(regression_abs_ms(baseline[k], candidate[k]), 100))]
           bad == Filter(AgentMetrics,
                         {k \in Range(AgentMetrics) :
                            agent_is_failed(reg[k], agent_limits[k],
                                            dlt[k], absolute_floor_ms)})
       IN  /\ regressions' = reg
           /\ absolute_deltas' = dlt
           /\ failed' = bad
           /\ exit_status' = IF bad # <<>> THEN 1 ELSE 0
    /\ pc' = "exited"
    /\ UNCHANGED <<gate, baseline, candidate>>
    /\ UNCHANGED <<cfgVars, fnVars, samplerVars, mainVars, runCaseVars>>
    /\ UNCHANGED <<engineVars, tokenGateVars, codexVars>>

\* index_perf_gate.main, from `regressions = ...` to the return
DecideIndex ==
    /\ gate = "index" /\ pc = "measured"
    /\ LET reg == [k \in Range(IndexLimitKeys) |->
                      IF k = "cold_index_throughput_drop_pct"
                      THEN round2(throughput_drop_pct(
                                      baseline["cold_index_throughput_fps"],
                                      candidate["cold_index_throughput_fps"]).val)
                      ELSE round2(index_regression_pct(baseline[k], candidate[k]).val)]
           bad == Filter(IndexLimitKeys,
                         {k \in Range(IndexLimitKeys) :
                            index_is_failed(reg[k], index_limits[k])})
       IN  /\ regressions' = reg
           /\ failed' = bad
           /\ exit_status' = IF bad # <<>> THEN 1 ELSE 0
    /\ pc' = "exited"
    /\ UNCHANGED <<gate, baseline, candidate, absolute_deltas>>
    /\ UNCHANGED <<cfgVars, fnVars, samplerVars, mainVars, runCaseVars>>
    /\ UNCHANGED <<engineVars, tokenGateVars, codexVars>>

-----------------------------------------------------------------------------
(* SpecGate: the decision stage entered with measured metrics.  Each       *)
(* metric's (baseline, candidate) p50 pair is drawn from GatePairs.        *)

\* (baseline, candidate) in hundredths of a ms:
\*   2 -> 2.5 ms (25 %, 0.5 ms), 100 -> 115 ms (15 %, 15 ms),
\*   1000 -> 1100.04 ms (10.004 %, 100.04 ms), 115 -> 2 ms (an improvement),
\*   0 -> 2.5 ms (no baseline), 30 -> 33 ms (10 %, 3 ms: both at the limit),
\*   20 -> 23.01 ms (15.05 %, 3.01 ms)
GatePairs ==
    { <<200, 250>>, <<10000, 11500>>, <<100000, 110004>>, <<11500, 200>>,
      <<0, 250>>, <<3000, 3300>>, <<2000, 2301>> }

FileCounts == {1, 2}

InitGate ==
    /\ pc = "measured"
    /\ \/ /\ gate = "agent_plan"
          /\ files = 1
          /\ \E pairs \in [Range(AgentMetrics) -> GatePairs] :
                /\ baseline = [k \in Range(AgentMetrics) |-> pairs[k][1]]
                /\ candidate = [k \in Range(AgentMetrics) |-> pairs[k][2]]
       \/ /\ gate = "index"
          /\ files \in FileCounts
          /\ \E pairs \in [Range(IndexLatencyMetrics) -> GatePairs] :
                /\ baseline = index_metrics(
                       [k \in Range(IndexLatencyMetrics) |-> pairs[k][1]], files)
                /\ candidate = index_metrics(
                       [k \in Range(IndexLatencyMetrics) |-> pairs[k][2]], files)
    /\ regressions = <<>> /\ absolute_deltas = <<>> /\ failed = <<>>
    /\ exit_status = -1
    /\ runs = 1 /\ warmup = 0
    /\ FnIdle /\ SamplerIdle /\ MainIdle /\ RunCaseIdle
    /\ EngineIdle

NextGate ==
    \/ DecideAgentPlan
    \/ DecideIndex

SpecGate == InitGate /\ [][NextGate]_vars

-----------------------------------------------------------------------------
(* SpecMain: a whole run of agent_plan_perf_gate.main, from the parsed     *)
(* arguments to the exit status.  Every external invocation is one step.   *)
(* env says which binaries exist and which of them know `agent plan`.      *)

InitMain ==
    /\ gate = "agent_plan" /\ pc = "start"
    /\ runs \in 0..MainMaxRuns /\ warmup \in -1..MainMaxWarmup /\ files \in {0, 1}
    /\ env \in [baseline_exists : BOOLEAN, candidate_exists : BOOLEAN,
                baseline_plan : BOOLEAN, candidate_plan : BOOLEAN]
    /\ binary = "none" /\ metric = 0 /\ measured_samples = <<>>
    /\ baseline = <<>> /\ candidate = <<>>
    /\ candidate_percentiles = <<>> /\ baseline_percentiles = <<>>
    /\ regressions = <<>> /\ absolute_deltas = <<>> /\ failed = <<>>
    /\ exit_status = -1 /\ invocations = 0
    /\ FnIdle /\ SamplerIdle /\ RunCaseIdle
    /\ EngineIdle

\* the frame of a fresh call of collect_samples
SamplerEntered ==
    /\ sfn' = "collect_samples" /\ spc' = "warmup" /\ si' = 0
    /\ out' = <<>> /\ calls' = <<>> /\ out_from' = <<>>
    /\ UNCHANGED summary

\* the frame of a call that returned is gone
SamplerLeft ==
    /\ sfn' = "none" /\ spc' = "idle" /\ si' = 0
    /\ out' = <<>> /\ calls' = <<>> /\ out_from' = <<>>
    /\ UNCHANGED summary

\* main: the checks of the arguments and of the two paths
MainValidate ==
    /\ gate = "agent_plan" /\ pc = "start"
    /\ IF \/ runs < 1 \/ warmup < 0 \/ files < 1
          \/ ~env.baseline_exists \/ ~env.candidate_exists
       THEN pc' = "exited" /\ exit_status' = 2
       ELSE pc' = "probe_candidate" /\ UNCHANGED exit_status
    /\ UNCHANGED <<gateRest, mainVars, cfgVars, fnVars, samplerVars, runCaseVars>>
    /\ UNCHANGED <<engineVars, tokenGateVars, codexVars>>

\* main: if not command_supports_agent_plan(candidate_bin): return 2
MainProbeCandidate ==
    /\ pc = "probe_candidate"
    /\ IF ~env.candidate_plan
       THEN pc' = "exited" /\ exit_status' = 2 /\ UNCHANGED binary
       ELSE pc' = "index" /\ binary' = "candidate" /\ UNCHANGED exit_status
    /\ UNCHANGED <<gateRest, env, metric, measured_samples, candidate_percentiles,
                   baseline_percentiles, invocations>>
    /\ UNCHANGED <<cfgVars, fnVars, samplerVars, runCaseVars>>
    /\ UNCHANGED <<engineVars, tokenGateVars, codexVars>>

\* measure_for_binary: write_fixture, run([binary, "index", ...]) with
\* check=True, then the first collect_samples is entered
MeasureIndex ==
    /\ pc = "index"
    /\ invocations' = invocations + 1
    /\ \E ok \in BOOLEAN :
        IF ok
        THEN /\ pc' = "sampling" /\ metric' = 1 /\ measured_samples' = <<>>
             /\ SamplerEntered
             /\ UNCHANGED exit_status
        ELSE /\ pc' = "raised" /\ exit_status' = 1
             /\ UNCHANGED <<metric, measured_samples, samplerVars>>
    /\ UNCHANGED <<gateRest, env, binary, candidate_percentiles,
                   baseline_percentiles>>
    /\ UNCHANGED <<cfgVars, fnVars, runCaseVars>>
    /\ UNCHANGED <<engineVars, tokenGateVars, codexVars>>

\* measure_for_binary: the metrics and the percentiles of the three lists
metrics_of(lists) ==
    [k \in Range(AgentMetrics) |->
        summarize(lists[CHOOSE i \in DOMAIN AgentMetrics : AgentMetrics[i] = k]).val.p50]

percentiles_of(lists) ==
    [k \in Range(AgentMetrics) |->
        summarize(lists[CHOOSE i \in DOMAIN AgentMetrics : AgentMetrics[i] = k]).val]

\* measure_for_binary: a collect_samples returned; the next one is entered
MeasureNextMetric ==
    /\ pc = "sampling" /\ spc = "returned" /\ metric < Len(AgentMetrics)
    /\ measured_samples' = Append(measured_samples, out)
    /\ metric' = metric + 1
    /\ SamplerEntered
    /\ UNCHANGED <<gateVars, env, binary, candidate_percentiles,
                   baseline_percentiles, invocations>>
    /\ UNCHANGED <<cfgVars, fnVars, runCaseVars>>
    /\ UNCHANGED <<engineVars, tokenGateVars, codexVars>>

\* a plausible bug: the baseline is measured without the probe
baseline_supports_plan_always(e) == TRUE

\* main: baseline_supports_plan = command_supports_agent_plan(baseline_bin)
baseline_supports_plan(e) == e.baseline_plan

\* measure_for_binary: the last collect_samples returned; the three lists
\* are summarized and main goes on, to the baseline or to the decision
MeasureDone ==
    /\ pc = "sampling" /\ spc = "returned" /\ metric = Len(AgentMetrics)
    /\ LET lists == Append(measured_samples, out)
       IN  IF binary = "candidate"
           THEN /\ candidate' = metrics_of(lists)
                /\ candidate_percentiles' = percentiles_of(lists)
                /\ IF baseline_supports_plan(env)
                   THEN /\ binary' = "baseline" /\ pc' = "index"
                        /\ UNCHANGED <<baseline, baseline_percentiles>>
                   ELSE /\ baseline' = candidate'
                        /\ baseline_percentiles' = candidate_percentiles'
                        /\ pc' = "measured"
                        /\ UNCHANGED binary
           ELSE /\ baseline' = metrics_of(lists)
                /\ baseline_percentiles' = percentiles_of(lists)
                /\ pc' = "measured"
                /\ UNCHANGED <<binary, candidate, candidate_percentiles>>
    /\ measured_samples' = <<>> /\ metric' = 0
    /\ SamplerLeft
    /\ UNCHANGED <<gate, regressions, absolute_deltas, failed, exit_status>>
    /\ UNCHANGED <<env, invocations, cfgVars, fnVars, runCaseVars>>
    /\ UNCHANGED <<engineVars, tokenGateVars, codexVars>>

NextMain ==
    \/ MainValidate
    \/ MainProbeCandidate
    \/ MeasureIndex
    \/ SamplerWarmupCall
    \/ SamplerWarmupDone
    \/ SamplerMeasuredCall
    \/ SamplerReturn
    \/ MeasureNextMetric
    \/ MeasureDone
    \/ DecideAgentPlan

SpecMain == InitMain /\ [][NextMain]_vars

-----------------------------------------------------------------------------
(* What the claims are stated with: the order statistics of a list, by     *)
(* counting and not by sorting.                                            *)

CountBelow(values, x) == Cardinality({i \in DOMAIN values : values[i] < x})

CountUpTo(values, x) == Cardinality({i \in DOMAIN values : values[i] <= x})

\* x is the k-th smallest value of the list
IsKthSmallest(values, k, x) ==
    /\ \E i \in DOMAIN values : values[i] = x
    /\ CountBelow(values, x) < k
    /\ k <= CountUpTo(values, x)

KthSmallest(values, k) ==
    CHOOSE x \in {values[i] : i \in DOMAIN values} : IsKthSmallest(values, k, x)

\* ceil(0.95 * n) clamped to [1, n]: the least k in 1..n with k >= 0.95 * n
Rank95(n) ==
    CHOOSE k \in 1..n : /\ 100 * k >= 95 * n \/ k = n
                        /\ k = 1 \/ 100 * (k - 1) < 95 * n

\* the standard median, as a rational
StandardMedian(values) ==
    LET n == Len(values)
    IN  IF n % 2 = 1 THEN Rat(KthSmallest(values, (n + 1) \div 2), 1)
        ELSE Rat(KthSmallest(values, n \div 2) + KthSmallest(values, (n \div 2) + 1), 2)

IsElementOf(x, values) == \E i \in DOMAIN values : RatEq(x, Rat(values[i], 1))

Abs(x) == IF x < 0 THEN -x ELSE x

-----------------------------------------------------------------------------
(* Claims.                                                                 *)

\* the exact regression percentage (after - before) / before * 100 of a
\* metric exceeds limit hundredths of a percent; it is 0.0 when before <= 0
ExactPctExceeds(before, after, limit) ==
    before > 0 /\ (after - before) * 10000 > limit * before

\* r hundredths of a percent is the exact regression percentage rounded to
\* two decimals
IsRoundedPct(r, before, after) ==
    IF before <= 0 THEN r = 0
    ELSE 2 * Abs(r * before - (after - before) * 10000) <= before

\* C1 as stated: in agent_plan_perf_gate.main a metric with a limit is in the
\* failed list, and the run exits with the gate-failure status, if and only
\* if its regression percentage is strictly greater than its relative limit
\* and its absolute delta is strictly greater than the floor of 3 ms.
C1_FailedIffBothExceeded ==
    (gate = "agent_plan" /\ pc = "exited") =>
        /\ \A k \in DOMAIN agent_limits :
               (k \in Range(failed)) <=>
                   /\ ExactPctExceeds(baseline[k], candidate[k], agent_limits[k])
                   /\ candidate[k] - baseline[k] > 300
        /\ (exit_status = 1) <=> (failed # <<>>)

\* C1 amended: the regression percentage that is compared is the one the
\* payload reports, rounded to two decimals: a metric is failed if and only
\* if that rounded percentage is strictly greater than its limit and its
\* absolute delta is strictly greater than 3 ms; the run exits 1 exactly
\* when some metric is failed, and 0 otherwise.  2 -> 2.5 ms is not failed,
\* 100 -> 115 ms is.
C1_FailedIffRoundedBothExceeded ==
    (gate = "agent_plan" /\ pc = "exited") =>
        /\ \A k \in DOMAIN agent_limits :
               /\ IsRoundedPct(regressions[k], baseline[k], candidate[k])
               /\ absolute_deltas[k] = candidate[k] - baseline[k]
               /\ (k \in Range(failed)) <=>
                      (regressions[k] > agent_limits[k] /\ absolute_deltas[k] > 300)
               /\ (baseline[k] = 200 /\ candidate[k] = 250) => k \notin Range(failed)
               /\ (baseline[k] = 10000 /\ candidate[k] = 11500) => k \in Range(failed)
        /\ exit_status = IF failed # <<>> THEN 1 ELSE 0

\* C1 witness: 1000 -> 1100.04 ms (10.004 %, reported as 10.0 %) passed,
\* 2 -> 2.5 ms passed and 100 -> 115 ms failed the gate.
C1_Witness ==
    /\ gate = "agent_plan" /\ pc = "exited"
    /\ baseline["plan_simple_ms"] = 100000 /\ candidate["plan_simple_ms"] = 110004
    /\ baseline["plan_complex_ms"] = 200 /\ candidate["plan_complex_ms"] = 250
    /\ baseline["plan_expand_e2e_ms"] = 10000
    /\ candidate["plan_expand_e2e_ms"] = 11500
    /\ failed = <<"plan_expand_e2e_ms">> /\ exit_status = 1

\* C2: in index_perf_gate.main a latency metric is listed as failed only
\* when its regression percentage exceeds its limit and its absolute delta
\* exceeds the absolute floor: 2 -> 2.5 ms (25 %) does not fail the gate.
C2_IndexFailedNeedsFloor ==
    (gate = "index" /\ pc = "exited") =>
        \A k \in Range(IndexLatencyMetrics) :
            /\ (k \in Range(failed)) =>
                   /\ ExactPctExceeds(baseline[k], candidate[k], index_limits[k])
                   /\ candidate[k] - baseline[k] > 300
            /\ (baseline[k] = 200 /\ candidate[k] = 250) => k \notin Range(failed)

\* C2 witness: the index gate failed on 2 -> 2.5 ms alone.
C2_Witness ==
    /\ gate = "index" /\ pc = "exited"
    /\ baseline["keyword_ranking_ms"] = 200 /\ candidate["keyword_ranking_ms"] = 250
    /\ failed = <<"keyword_ranking_ms">> /\ exit_status = 1

\* C3: in both gates a latency metric whose candidate value is strictly less
\* than its baseline value is never in the failed list, whatever the size of
\* the difference.
C3_ImprovementNeverFails ==
    (pc = "exited") =>
        \A k \in IF gate = "agent_plan" THEN Range(AgentMetrics)
                 ELSE Range(IndexLatencyMetrics) :
            (candidate[k] < baseline[k]) => k \notin Range(failed)

\* C3 witness: the index gate failed on one metric while another one improved
\* from 115 ms to 2 ms.
C3_Witness ==
    /\ gate = "index" /\ pc = "exited"
    /\ baseline["keyword_ranking_ms"] = 11500 /\ candidate["keyword_ranking_ms"] = 200
    /\ "keyword_ranking_ms" \notin Range(failed)
    /\ "keyword_legacy_ms" \in Range(failed)

\* C4: regression_pct(before, after) never raises; it returns 0.0 whenever
\* before <= 0 and (after - before) / before * 100 whenever before > 0, so
\* regression_pct(100, 110) = 10.  Both gates' copies of the function.
C4_RegressionPct ==
    (fn \in {"regression_pct", "index_regression_pct"}) =>
        /\ ret.exc = "none"
        /\ arg.before <= 0 => ret.val.n = 0
        /\ arg.before > 0 =>
               ret.val.n * arg.before = (arg.after - arg.before) * 100 * ret.val.d
        /\ (arg.before = 100 /\ arg.after = 110) => RatEq(ret.val, Rat(10, 1))

\* C4 witness: a zero baseline with a non-zero candidate has been compared.
C4_Witness ==
    /\ fn = "regression_pct" /\ arg.before = 0 /\ arg.after = 250
    /\ ret = Returned(Rat(0, 1))

\* the number of warmup invocations the sampler owes: max(0, warmup)
WarmupOwed == IF warmup > 0 THEN warmup ELSE 0

\* C5: the sampler (runs >= 1, any warmup) invokes the operation exactly
\* max(0, warmup) + runs times, one invocation per step; every warmup
\* invocation precedes every measured one; the returned list has exactly
\* `runs` entries, the results of the last `runs` invocations in invocation
\* order, and holds no warmup result.
C5_SamplerDiscipline ==
    (spc # "idle") =>
        /\ Len(calls) <= WarmupOwed + runs
        /\ \A i \in DOMAIN calls :
               calls[i].phase = IF i <= WarmupOwed THEN "warmup" ELSE "measured"
        /\ spc \in {"returned", "summarized"} =>
               /\ Len(calls) = WarmupOwed + runs
               /\ \A i \in DOMAIN calls : calls[i].ok
               /\ Len(out) = runs
               /\ Len(out_from) = runs
               /\ \A j \in 1..runs :
                      /\ out_from[j] = WarmupOwed + j
                      /\ out[j] = calls[WarmupOwed + j].ms
                      /\ calls[out_from[j]].phase = "measured"

\* C5 witness: a sampler that returned after two warmup invocations whose
\* durations differ from every measured one.
C5_Witness ==
    /\ spc = "returned" /\ warmup = 2 /\ runs >= 2
    /\ calls[1].ms = 2500 /\ calls[2].ms = 2500
    /\ \A j \in DOMAIN out : out[j] # 2500
    /\ out[1] # out[2]

\* the invocations a complete measurement of one binary makes: the index run
\* and, for each of the three metrics, max(0, warmup) + runs workers
InvocationsPerBinary == 1 + Len(AgentMetrics) * (WarmupOwed + runs)

\* C6: if any invocation of the operation fails during sampling (warmup or
\* measured), the whole sampling call fails: the sampler returns no list, no
\* percentile summary is computed from the samples gathered so far, and the
\* gate produces no verdict; a verdict is only ever produced after every
\* invocation of every measured binary has succeeded.
C6_FailedSamplingFailsAll ==
    /\ (\E i \in DOMAIN calls : ~calls[i].ok) => (spc = "raised" /\ pc = "raised")
    /\ (spc = "raised") =>
        /\ ~calls[Len(calls)].ok
        /\ pc = "raised" /\ exit_status = 1
        /\ regressions = <<>> /\ absolute_deltas = <<>> /\ failed = <<>>
        /\ baseline = <<>> /\ baseline_percentiles = <<>>
        /\ (binary = "candidate") => (candidate = <<>> /\ candidate_percentiles = <<>>)
        /\ ~ENABLED NextMain
    /\ (regressions # <<>> \/ failed # <<>>) =>
        /\ pc = "exited" /\ exit_status \in {0, 1}
        /\ invocations = InvocationsPerBinary * (IF env.baseline_plan THEN 2 ELSE 1)

\* C6 witness: the candidate was measured, then a measured invocation of the
\* baseline's second metric failed after samples had been gathered.
C6_Witness ==
    /\ pc = "raised" /\ spc = "raised" /\ binary = "baseline"
    /\ candidate # <<>> /\ metric = 2 /\ Len(measured_samples) = 1
    /\ Len(out) >= 1 /\ calls[Len(calls)].phase = "measured"
    /\ failed = <<>> /\ exit_status = 1

\* C7: every sample set reduced to a p50/p95 summary holds exactly the
\* configured number of measured runs: in run_case the latency list behind
\* latency_ms_p50 and latency_ms_p95, reported as attempted_runs, has length
\* `runs` for every sequence of invocation outcomes.
C7_SummarizedCountIsRuns ==
    (rc_pc = "returned") =>
        /\ Len(rc_latencies) = runs
        /\ rc_result.attempted_runs = runs

\* C7 witness: run_case returned a summary of fewer latencies than runs.
C7_Witness ==
    /\ rc_pc = "returned" /\ runs = 3
    /\ rc_result.attempted_runs = 2 /\ rc_result.errors = <<"nonzero">>

\* C7, the gates' half (holds): the list summarize / summarize_latency_ms is
\* given has length `runs`.
C7_GateSummarizedCountIsRuns ==
    (spc = "summarized") => (Len(out) = runs /\ summary.exc = "none")

\* C8: for a non-empty list of n samples, percentile_nearest(values, 95) and
\* percentile_nearest_rank(values, 95) return the value at 1-based rank
\* ceil(0.95 * n), clamped to [1, n], of the ascending order, whatever the
\* order of the input; [10, 20, 30] gives 30 and [10, 20, 30, 40] gives 40.
C8_NearestRank95 ==
    (/\ fn \in {"percentile_nearest", "percentile_nearest_rank"}
     /\ arg.p = 95 /\ arg.values # <<>>) =>
        /\ ret.exc = "none"
        /\ IsKthSmallest(arg.values, Rank95(Len(arg.values)), ret.val)
        /\ Len(arg.values) = 3 /\ 30000 \in {arg.values[i] : i \in 1..3}
               => ret.val = 30000
        /\ Len(arg.values) = 4 /\ 40000 \in {arg.values[i] : i \in 1..4}
               => ret.val = 40000

\* C8 witness: a list long enough for the rank to fall below n, with its
\* single largest sample not first, so the p95 is not the maximum.
C8_Witness ==
    /\ fn = "percentile_nearest" /\ arg.p = 95
    /\ Len(arg.values) = LongLen
    /\ arg.values[3] = 9000
    /\ ret = Returned(2000)

\* C9: for every non-empty sample set S, every p95 the harness computes from
\* S is one of the observed values of S: percentile_nearest and
\* percentile_nearest_rank of the gates, and the percentile functions of
\* run_case, of token_gate and of the Codex benchmark.
C9_P95IsObserved ==
    (/\ fn \in {"percentile_nearest", "percentile_nearest_rank",
                "search_percentile", "token_gate_percentile", "codex_percentile"}
     /\ arg.p = 95 /\ arg.values # <<>>) =>
        IF fn \in {"percentile_nearest", "percentile_nearest_rank"}
        THEN IsElementOf(Rat(ret.val, 1), arg.values)
        ELSE IsElementOf(ret.val, arg.values)

\* C9 witness: the two samples 1.234 ms and 2 ms, of which the interpolating
\* percentile of run_case makes a p95 of 1.9617 ms.
C9_Witness ==
    /\ fn = "search_percentile" /\ arg.p = 95
    /\ arg.values = <<1234, 2000>>
    /\ RatEq(ret.val, Rat(19617, 10))

\* C10 as stated: for n >= 1 samples the p50 of summarize and of
\* summarize_latency_ms equals the standard median of S and lies within
\* [min(S), max(S)].
C10_P50IsMedian ==
    (/\ fn \in {"summarize", "summarize_latency_ms"}
     /\ arg.values # <<>>) =>
        /\ ret.exc = "none"
        /\ RatEq(Rat(10 * ret.val.p50, 1), StandardMedian(arg.values))
        /\ SeqMin(arg.values) <= 10 * ret.val.p50
        /\ 10 * ret.val.p50 <= SeqMax(arg.values)

\* C10 amended: the p50 is the standard median of S rounded to two decimals:
\* a multiple of 0.01 ms at most 0.005 ms from the median, hence within
\* [min(S) - 0.005, max(S) + 0.005].
C10_P50IsRoundedMedian ==
    (/\ fn \in {"summarize", "summarize_latency_ms"}
     /\ arg.values # <<>>) =>
        LET med == StandardMedian(arg.values)
        IN  /\ ret.exc = "none"
            /\ 2 * Abs(10 * ret.val.p50 * med.d - med.n) <= 10 * med.d
            /\ SeqMin(arg.values) - 5 <= 10 * ret.val.p50
            /\ 10 * ret.val.p50 <= SeqMax(arg.values) + 5

\* C10 witness: an even number of samples whose two middle values differ,
\* summarized to the rounded mean of the two.
C10_Witness ==
    /\ fn = "summarize" /\ arg.values = <<2000, 1234>>
    /\ ret = Returned([p50 |-> 162, p95 |-> 200])

\* C11: summarizing an empty sample set does not raise and returns a latency
\* summary with p50 = 0.0 and p95 = 0.0, for summarize and for
\* summarize_latency_ms.
C11_EmptySummaryIsZero ==
    (/\ fn \in {"summarize", "summarize_latency_ms"}
     /\ arg.values = <<>>) =>
        ret = Returned([p50 |-> 0, p95 |-> 0])

-----------------------------------------------------------------------------
(* The completion engine of benchmark_agent_token_efficiency and of        *)
(* benchmark_codex_agent_efficiency.  A str is a sequence of characters.   *)

MaxText == 3         \* longest exhaustively enumerated text

Chars == {"a", "A", "b", "c"}

\* a plausible bug: the case is kept
lower_case_kept(s) == s

\* str.lower()
lower(s) ==
    [i \in DOMAIN s |-> IF s[i] = "A" THEN "a"
                        ELSE IF s[i] = "B" THEN "b"
                        ELSE IF s[i] = "C" THEN "c" ELSE s[i]]

\* marker in text  (str.__contains__: some slice of text is marker)
contains(text, marker) ==
    \E off \in 0..(Len(text) - Len(marker)) :
        SubSeq(text, off + 1, off + Len(marker)) = marker

\* sep.join(parts)
RECURSIVE join(_, _)
join(sep, parts) ==
    IF parts = <<>> THEN <<>>
    ELSE IF Len(parts) = 1 THEN parts[1]
    ELSE parts[1] \o sep \o join(sep, Tail(parts))

\* any(marker.lower() in normalized for marker in group)
any_marker_in(normalized, group) ==
    \E m \in DOMAIN group : contains(normalized, lower(group[m]))

\* benchmark_agent_token_efficiency.missing_completion_groups
RECURSIVE missing_completion_groups(_, _)
missing_completion_groups(text, groups) ==
    LET normalized == lower(text)
    IN  IF groups = <<>> THEN <<>>
        ELSE (IF ~any_marker_in(normalized, Head(groups))
              THEN <<join(<<" ", "|", " ">>, Head(groups))>> ELSE <<>>)
             \o missing_completion_groups(text, Tail(groups))

\* benchmark_codex_agent_efficiency.marker_groups_met, from the chunks
\* (the path and the reason of every evidence row) on
marker_groups_met(chunks, groups) ==
    LET normalized == lower(join(<<" ">>, chunks))
    IN  \A g \in DOMAIN groups : any_marker_in(normalized, groups[g])

-----------------------------------------------------------------------------
(* SpecText: the two completion checks applied to every short text.        *)

Texts == UNION {[1..n -> Chars] : n \in 0..MaxText}

\* completion groups: (A) and (B, C) as in the scenarios; a marker of two
\* characters; an empty group; an empty marker; three groups
GroupPlans ==
    { << <<<<"A">>>>, <<<<"B">>, <<"C">>>> >>,
      << <<<<"a", "B">>>> >>,
      << <<>>, <<<<"a">>>> >>,
      << <<<<>>>> >>,
      << <<<<"c">>>>, <<<<"A">>, <<"b">>>>, <<<<"b">>>> >> }

TextInputs == [kind : {"text"}, text : Texts, groups : GroupPlans]

InitText ==
    /\ arg \in TextInputs /\ fn = "none" /\ ret = Raised("none")
    /\ CfgIdle /\ SamplerIdle /\ GateIdle /\ MainIdle /\ RunCaseIdle
    /\ EngineIdle

Call_missing_completion_groups ==
    /\ arg.kind = "text"
    /\ Apply("missing_completion_groups",
             Returned(missing_completion_groups(arg.text, arg.groups)))

\* the text is cut in two chunks at every position
Call_marker_groups_met ==
    /\ arg.kind = "text"
    /\ \E cut \in 0..Len(arg.text) :
        Apply("marker_groups_met",
              Returned(marker_groups_met(<<SubSeq(arg.text, 1, cut),
                                           SubSeq(arg.text, cut + 1, Len(arg.text))>>,
                                         arg.groups)))

NextText ==
    \/ Call_missing_completion_groups
    \/ Call_marker_groups_met

SpecText == InitText /\ [][NextText]_vars

\* the characters of a and of b are equal up to case
SameLetters(a, b) ==
    /\ Len(a) = Len(b)
    /\ \A i \in DOMAIN a :
          \/ a[i] = b[i]
          \/ {a[i], b[i]} \in {{"a", "A"}, {"b", "B"}, {"c", "C"}}

\* marker is a case-insensitive substring of text
InsensitiveSubstring(text, marker) ==
    \E off \in 0..(Len(text) - Len(marker)) :
        SameLetters(SubSeq(text, off + 1, off + Len(marker)), marker)

\* the group has a marker that is a case-insensitive substring of text
GroupSatisfied(text, group) ==
    \E m \in DOMAIN group : InsensitiveSubstring(text, group[m])

\* C12: missing_completion_groups(text, groups) returns exactly the groups,
\* in scenario order, of which no marker is a case-insensitive substring of
\* text; the scenario is completed (nothing missing) if and only if every
\* group has at least one marker in the text.  Groups (A), (B, C) with a text
\* holding A and C but not B are completed.
C12_MissingGroups ==
    (fn = "missing_completion_groups") =>
        LET missing == {g \in DOMAIN arg.groups : ~GroupSatisfied(arg.text, arg.groups[g])}
            labels == ret.val
        IN  /\ ret.exc = "none"
            /\ Len(labels) = Cardinality(missing)
            /\ \A i \in DOMAIN labels :
                  \E g \in missing :
                     /\ labels[i] = join(<<" ", "|", " ">>, arg.groups[g])
                     /\ Cardinality({h \in missing : h <= g}) = i
            /\ (labels = <<>>) <=>
                   \A g \in DOMAIN arg.groups : GroupSatisfied(arg.text, arg.groups[g])
            /\ (/\ arg.groups = << <<<<"A">>>>, <<<<"B">>, <<"C">>>> >>
                /\ InsensitiveSubstring(arg.text, <<"A">>)
                /\ InsensitiveSubstring(arg.text, <<"C">>)) => labels = <<>>

\* C12 witness: groups (A), (B, C) checked against a text holding a and c in
\* lower case and no b: nothing is missing.
C12_Witness ==
    /\ fn = "missing_completion_groups"
    /\ arg.groups = << <<<<"A">>>>, <<<<"B">>, <<"C">>>> >>
    /\ arg.text = <<"c", "a">>
    /\ ret = Returned(<<>>)

-----------------------------------------------------------------------------
(* parse_tiers of benchmark_agent_token_efficiency: the tier plan given as *)
(* a comma-separated str.                                                  *)

MaxRaw == 5          \* longest --baseline-file-tiers / --cgrep-expand-tiers

RawChars == {"0", "1", "2", "-", ",", " ", "x"}

Digits == {"0", "1", "2", "3"}

\* raw.split(","): the chunks between the commas, at least one
RECURSIVE split_commas(_)
split_commas(raw) ==
    IF \A i \in DOMAIN raw : raw[i] # ","
    THEN <<raw>>
    ELSE LET c == CHOOSE i \in DOMAIN raw :
                      raw[i] = "," /\ \A j \in 1..(i - 1) : raw[j] # ","
         IN  <<SubSeq(raw, 1, c - 1)>> \o split_commas(SubSeq(raw, c + 1, Len(raw)))

\* the whitespace of the modelled texts: the blank and the newline
Whitespace == {" ", "\n"}

\* chunk.strip()
RECURSIVE strip(_)
strip(chunk) ==
    IF chunk = <<>> THEN <<>>
    ELSE IF Head(chunk) \in Whitespace THEN strip(Tail(chunk))
    ELSE IF chunk[Len(chunk)] \in Whitespace
         THEN strip(SubSeq(chunk, 1, Len(chunk) - 1))
    ELSE chunk

\* the value of a str of decimal digits
RECURSIVE digits_value(_)
digits_value(ds) ==
    IF ds = <<>> THEN 0
    ELSE 10 * digits_value(SubSeq(ds, 1, Len(ds) - 1))
         + (CHOOSE v \in 0..3 : <<"0", "1", "2", "3">>[v + 1] = ds[Len(ds)])

\* int(item): an optional sign and at least one digit, else ValueError
int(item) ==
    LET body == IF item # <<>> /\ Head(item) = "-" THEN Tail(item) ELSE item
    IN  IF body = <<>> \/ \E i \in DOMAIN body : body[i] \notin Digits
        THEN Raised("ValueError")
        ELSE Returned(IF body = item THEN digits_value(body) ELSE -digits_value(body))

\* a plausible bug: zero is let through
tier_rejected_negative(n) == n < 0

\* if n <= 0: raise ValueError
tier_rejected(n) == n <= 0

\* the loop of parse_tiers over the chunks left, values being the list so far
RECURSIVE parse_tiers_loop(_, _)
parse_tiers_loop(chunks, values) ==
    IF chunks = <<>>
    THEN IF values = <<>> THEN Raised("ValueError") ELSE Returned(values)
    ELSE LET item == strip(Head(chunks))
             n == int(item)
         IN  IF item = <<>> THEN parse_tiers_loop(Tail(chunks), values)
             ELSE IF n.exc # "none" THEN n
             ELSE IF tier_rejected(n.val) THEN Raised("ValueError")
             ELSE IF \E i \in DOMAIN values : values[i] = n.val
                  THEN parse_tiers_loop(Tail(chunks), values)
             ELSE parse_tiers_loop(Tail(chunks), Append(values, n.val))

\* benchmark_agent_token_efficiency.parse_tiers
parse_tiers(raw) == parse_tiers_loop(split_commas(raw), <<>>)

-----------------------------------------------------------------------------
(* SpecTiers: parse_tiers applied to every short str.                      *)

Raws == UNION {[1..n -> RawChars] : n \in 0..MaxRaw}

InitTiers ==
    /\ arg \in [kind : {"tiers"}, raw : Raws] /\ fn = "none" /\ ret = Raised("none")
    /\ CfgIdle /\ SamplerIdle /\ GateIdle /\ MainIdle /\ RunCaseIdle
    /\ EngineIdle

Call_parse_tiers ==
    /\ arg.kind = "tiers"
    /\ Apply("parse_tiers", parse_tiers(arg.raw))

NextTiers ==
    \/ Call_parse_tiers

SpecTiers == InitTiers /\ [][NextTiers]_vars

\* the items of raw: its chunks, stripped, the empty ones dropped
Items(raw) ==
    LET chunks == split_commas(raw)
    IN  {strip(chunks[i]) : i \in DOMAIN chunks} \ {<<>>}

\* the position in raw's chunks of the first item whose value is v
FirstOccurrence(raw, v) ==
    LET chunks == split_commas(raw)
    IN  CHOOSE i \in DOMAIN chunks :
            /\ strip(chunks[i]) # <<>> /\ int(strip(chunks[i])) = Returned(v)
            /\ \A j \in 1..(i - 1) :
                   strip(chunks[j]) = <<>> \/ int(strip(chunks[j])) # Returned(v)

\* C19: parse_tiers(raw) either raises ValueError (it does when some item is
\* <= 0 and when no item remains after the empty chunks are dropped) or
\* returns a non-empty list of strictly positive values, none of them twice,
\* in the order of their first occurrence in the input; it returns whenever
\* the items are positive integers and there is one.
C19_ParseTiers ==
    (fn = "parse_tiers") =>
        LET items == Items(arg.raw)
        IN  /\ ret.exc \in {"none", "ValueError"}
            /\ (items = {} \/ \E it \in items : int(it).exc = "none" /\ int(it).val <= 0)
                   => ret.exc = "ValueError"
            /\ (items # {} /\ \A it \in items : int(it).exc = "none" /\ int(it).val > 0)
                   => ret.exc = "none"
            /\ (ret.exc = "none") =>
                   /\ ret.val # <<>>
                   /\ \A i \in DOMAIN ret.val : ret.val[i] > 0
                   /\ \A i, j \in DOMAIN ret.val : i # j => ret.val[i] # ret.val[j]
                   /\ {ret.val[i] : i \in DOMAIN ret.val} = {int(it).val : it \in items}
                   /\ \A i, j \in DOMAIN ret.val :
                          i < j => FirstOccurrence(arg.raw, ret.val[i])
                                       < FirstOccurrence(arg.raw, ret.val[j])

\* C19 witness: "2,1,2" is parsed to [2, 1].
C19_Witness ==
    /\ fn = "parse_tiers" /\ arg.raw = <<"2", ",", "1", ",", "2">>
    /\ ret = Returned(<<2, 1>>)

-----------------------------------------------------------------------------
(* benchmark_agent_token_efficiency.main: one scenario run to completion   *)
(* by the two strategies.  A text is a sequence of characters; a fixed     *)
(* label of the code is one character ("=" a tier header, "[none]" the     *)
(* nothing-to-expand note, "[TRUNCATED]" the truncation marker).           *)

MaxLines == 2        \* most lines of grep output
MaxRows == 3         \* most rows of locate output

\* the scenario: its objective names the first marker, as every entry of
\* SCENARIOS does; its completion groups are (A) and (B, C)
Scenario ==
    [ objective |-> <<"a">>,
      completion_groups |-> << <<<<"A">>>>, <<<<"B">>, <<"C">>>> >> ]

\* seq[a:b] of Python, for 0 <= a and 0 <= b
slice(seq, a, b) == SubSeq(seq, a + 1, Min(b, Len(seq)))

\* load_tokenizer, the fallback: ceil(len(text.encode("utf-8")) / 4.0)
count_tokens(text) == ceil(Len(text), 4)

\* a plausible bug: the total is overwritten, not added to
tokens_overwritten(total, attempt_tokens) == attempt_tokens

\* baseline_tokens_to_completion += attempt_tokens
tokens_added(total, attempt_tokens) == total + attempt_tokens

\* parse_grep_matches: the lines `path:line:text`, the others skipped, up to
\* max_matches of them
RECURSIVE parse_grep_matches(_, _)
parse_grep_matches(stdout, max_matches) ==
    IF stdout = <<>> THEN <<>>
    ELSE IF Head(stdout).rel = "" THEN parse_grep_matches(Tail(stdout), max_matches)
    ELSE IF max_matches <= 1 THEN <<Head(stdout).rel>>
    ELSE <<Head(stdout).rel>> \o parse_grep_matches(Tail(stdout), max_matches - 1)

\* a plausible bug: the cap on the unique files is not applied
pool_is_full_never(pool, max_size) == FALSE

\* if len(ordered_files) >= max_unique_files: continue
pool_is_full(pool, max_size) == Len(pool) >= max_size

\* prepare_baseline_snippets: ordered_files, the distinct files of the matches
\* in order, at most max_unique_files
RECURSIVE unique_files(_, _, _)
unique_files(matches, ordered, max_unique_files) ==
    IF matches = <<>> THEN ordered
    ELSE IF \E i \in DOMAIN ordered : ordered[i] = Head(matches)
         THEN unique_files(Tail(matches), ordered, max_unique_files)
    ELSE IF pool_is_full(ordered, max_unique_files)
         THEN unique_files(Tail(matches), ordered, max_unique_files)
    ELSE unique_files(Tail(matches), Append(ordered, Head(matches)), max_unique_files)

\* prepare_baseline_snippets: sections_by_file; "" for a file not read
sections_by_file(rel) ==
    IF rel = "f1" THEN <<"-", "f1", "\n", "b", "\n">>
    ELSE IF rel = "f2" THEN <<"-", "f2", "\n", "x", "x", "x", "x", "\n">>
    ELSE <<>>

\* "\n".join(grep_run.stdout.splitlines()[:200])
locate_preview(stdout) ==
    join(<<"\n">>, [i \in DOMAIN stdout |-> stdout[i].text])

\* the non-empty stripped bodies of the files, in order
RECURSIVE bodies(_)
bodies(new_files) ==
    IF new_files = <<>> THEN <<>>
    ELSE LET body == strip(sections_by_file(Head(new_files)))
         IN  (IF body # <<>> THEN <<body>> ELSE <<>>) \o bodies(Tail(new_files))

TRUNCATED == <<"\n", "\n", "[TRUNCATED]">>

\* if len(attempt_payload) > max_chars: attempt_payload[:max_chars] + marker
truncate(payload, max_chars) ==
    IF Len(payload) > max_chars
    THEN SubSeq(payload, 1, max_chars) \o TRUNCATED
    ELSE payload

\* the baseline loop body up to the payload: attempt idx of plan tier `tier`
baseline_attempt_payload(idx, new_files, stdout, max_chars) ==
    LET head == IF idx = 1
                THEN << <<"T">> \o Scenario.objective, <<>>, <<"=">>,
                        locate_preview(stdout), <<>> >>
                ELSE <<>>
        tail == IF new_files # <<>> THEN bodies(new_files) ELSE << <<"[none]">> >>
    IN  truncate(strip(join(<<"\n">>, head \o << <<"=">> >> \o tail)), max_chars)

-----------------------------------------------------------------------------
(* SpecEngine: main from the parsed arguments to the scenario's result.    *)

\* --baseline-file-tiers and --cgrep-expand-tiers: "1", "1,2", "2,1",
\* "2,1,3", "0"
TierRaws ==
    { <<"1">>, <<"1", ",", "2">>, <<"2", ",", "1">>,
      <<"2", ",", "1", ",", "3">>, <<"0">> }

\* --baseline-max-files and --expand-ids
PoolMaxima == {0, 1, 3}

\* --baseline-max-chars: a small one and one no payload reaches
MaxChars == {6, 1000}

EngineArgs ==
    [ baseline_file_tiers : TierRaws, cgrep_expand_tiers : TierRaws,
      baseline_max_files : PoolMaxima, expand_ids : PoolMaxima,
      baseline_max_chars : MaxChars, grep_max_matches : {300} ]

InitEngine ==
    /\ e_pc = "start" /\ args \in EngineArgs
    /\ baseline_tiers = <<>> /\ cgrep_tiers = <<>>
    /\ BaselineIdle /\ CgrepIdle /\ scenario_results = <<>> /\ ReportIdle
    /\ CfgIdle /\ FnIdle /\ SamplerIdle /\ GateIdle /\ MainIdle /\ RunCaseIdle
    /\ TokenGateIdle /\ CodexIdle

othersVars == <<cfgVars, fnVars, samplerVars, gateVars, mainVars, runCaseVars,
                tokenGateVars, codexVars>>

\* max(tiers)
max(tiers) == CHOOSE m \in {tiers[i] : i \in DOMAIN tiers} :
                  \A i \in DOMAIN tiers : tiers[i] <= m

\* a plausible bug: the plans are not compared with the pool maxima
plan_exceeds_never(tiers, maximum) == FALSE

\* if max(baseline_tiers) > args.baseline_max_files: raise SystemExit
plan_exceeds(tiers, maximum) == max(tiers) > maximum

\* raise SystemExit(message): the message is printed, the exit status is 1
SystemExit(message) == 1

\* main: the tier plans are parsed and checked against the pool maxima
EngineValidate ==
    /\ e_pc = "start"
    /\ LET bt == parse_tiers(args.baseline_file_tiers)
           ct == parse_tiers(args.cgrep_expand_tiers)
       IN  IF bt.exc # "none" \/ ct.exc # "none"
           THEN /\ e_pc' = "exit" /\ e_exit' = SystemExit("Invalid tier config")
                /\ UNCHANGED <<baseline_tiers, cgrep_tiers>>
           ELSE IF \/ plan_exceeds(bt.val, args.baseline_max_files)
                   \/ plan_exceeds(ct.val, args.expand_ids)
           THEN /\ e_pc' = "exit" /\ e_exit' = SystemExit("tier max exceeds")
                /\ UNCHANGED <<baseline_tiers, cgrep_tiers>>
           ELSE /\ e_pc' = "index" /\ baseline_tiers' = bt.val
                /\ cgrep_tiers' = ct.val /\ UNCHANGED e_exit
    /\ UNCHANGED <<args, baselineVars, cgrepVars, scenario_results, othersVars,
                   index_run, e_summary>>

\* main: the index is rebuilt unless --skip-index; a failure ends the run
EngineIndex ==
    /\ e_pc = "index"
    /\ \E skip_index \in BOOLEAN, returncode \in {0, 1} :
          /\ index_run' = IF skip_index THEN [returncode |-> 0]
                          ELSE [returncode |-> returncode]
          /\ IF index_run'.returncode # 0
             THEN e_pc' = "exit" /\ e_exit' = SystemExit("Indexing failed")
             ELSE e_pc' = "grep" /\ UNCHANGED e_exit
    /\ UNCHANGED <<args, baseline_tiers, cgrep_tiers, baselineVars, cgrepVars,
                   scenario_results, othersVars, e_summary>>

\* a line of grep output: a match in a file, or a line that is no
\* `path:line:text` and whose text holds the marker c
GrepLines ==
    { [rel |-> "f1", text |-> <<"f1">>], [rel |-> "f2", text |-> <<"f2">>],
      [rel |-> "", text |-> <<"c">>] }

GrepStdouts == UNION {[1..n -> GrepLines] : n \in 0..MaxLines}

GrepDurations == {3}

\* the exit status of grep: 0 when a line was selected, 1 when none was,
\* 2 on an error; run_cmd keeps it in the result and main never reads it
GrepReturncodes(stdout) == IF stdout = <<>> THEN {1, 2} ELSE {0}

\* main: grep is run once, prepare_baseline_snippets makes the pool, the
\* baseline loop starts
EngineGrep ==
    /\ e_pc = "grep"
    /\ \E stdout \in GrepStdouts, duration_ms \in GrepDurations :
        /\ \E returncode \in GrepReturncodes(stdout) :
            grep_run' = [stdout |-> stdout, duration_ms |-> duration_ms,
                         returncode |-> returncode]
        /\ ordered_files' =
               unique_files(parse_grep_matches(stdout, args.grep_max_matches),
                            <<>>, args.baseline_max_files)
    /\ baseline_attempts' = <<>> /\ baseline_context_parts' = <<>>
    /\ baseline_tokens_to_completion' = 0
    /\ baseline_latency_to_completion_ms' = 0
    /\ baseline_completed' = FALSE /\ previous_file_cap' = 0
    /\ e_pc' = "baseline"
    /\ UNCHANGED <<args, baseline_tiers, cgrep_tiers, cgrepVars, scenario_results,
                   othersVars, reportVars>>

\* a plausible bug: one missing group is let through
groups_all_but_one_met(missing) == Len(missing) <= 1

\* baseline_completed = len(baseline_missing) == 0
groups_all_met(missing) == Len(missing) = 0

\* a plausible bug: the loop goes on after a completed attempt
loop_breaks_on_exhaustion_only(completed, cap, pool_size) == cap >= pool_size

\* a plausible bug: the loop runs the whole plan
loop_breaks_never(completed, cap, pool_size) == FALSE

\* if completed or cap >= len(pool): break
loop_breaks(completed, cap, pool_size) == completed \/ cap >= pool_size

\* one pass of `for idx, tier in enumerate(baseline_tiers, start=1)`
BaselineAttempt ==
    /\ e_pc = "baseline"
    /\ LET idx == Len(baseline_attempts) + 1
           tier == baseline_tiers[idx]
           capped_tier == Min(tier, Len(ordered_files))
           new_files == slice(ordered_files, previous_file_cap, capped_tier)
           attempt_payload ==
               baseline_attempt_payload(idx, new_files, grep_run.stdout,
                                        args.baseline_max_chars)
           attempt_tokens == count_tokens(attempt_payload)
           parts == Append(baseline_context_parts, attempt_payload)
           missing == missing_completion_groups(join(<<"\n", "\n">>, parts),
                                                Scenario.completion_groups)
           completed == groups_all_met(missing)
       IN  /\ baseline_tokens_to_completion' =
                  tokens_added(baseline_tokens_to_completion, attempt_tokens)
           /\ baseline_latency_to_completion_ms' =
                  baseline_latency_to_completion_ms
                  + (IF idx = 1 THEN grep_run.duration_ms ELSE 0)
           /\ baseline_context_parts' = parts
           /\ baseline_completed' = completed
           /\ baseline_attempts' = Append(baseline_attempts,
                  \* plan_tier, added_from and attempt_payload are history
                  \* kept beside the record
                  [ tier |-> capped_tier, plan_tier |-> tier,
                    added_from |-> previous_file_cap,
                    added_files |-> Len(new_files),
                    attempt_payload |-> attempt_payload,
                    attempt_tokens |-> attempt_tokens,
                    cumulative_tokens |-> baseline_tokens_to_completion',
                    completed |-> completed,
                    missing_markers |-> missing ])
           /\ previous_file_cap' = capped_tier
           /\ e_pc' = IF \/ loop_breaks(completed, capped_tier, Len(ordered_files))
                         \/ idx = Len(baseline_tiers)
                      THEN "locate" ELSE "baseline"
    /\ UNCHANGED <<args, baseline_tiers, cgrep_tiers, grep_run, ordered_files,
                   cgrepVars, scenario_results, othersVars, reportVars>>

\* the rows of locate's results: the id of a row, "" for a row that has a
\* path but no id
LocateRows == UNION {[1..n -> {"i1", ""}] : n \in 0..MaxRows}

\* what `agent locate` prints: JSON with its results, or something
\* json.loads rejects
LocateStdouts ==
    [json : {TRUE}, results : LocateRows]
    \cup {[json |-> FALSE, results |-> <<>>]}

LocateDurations == {5}

\* locate_run.stdout as a text: a row with an id prints the id, a row
\* without one its path, which holds the marker c
stdout_text(stdout) ==
    IF ~stdout.json THEN <<"e">>
    ELSE <<"{">>
         \o [i \in DOMAIN stdout.results |->
                IF stdout.results[i] = "" THEN "c" ELSE stdout.results[i]]
         \o <<"}">>

\* extract_ids_from_locate: the loop over the rows, ids being the list so far
RECURSIVE extract_ids_loop(_, _, _)
extract_ids_loop(results, ids, max_ids) ==
    IF results = <<>> THEN ids
    ELSE LET rid == Head(results)
             ids2 == IF rid # "" THEN Append(ids, rid) ELSE ids
         IN  IF pool_is_full(ids2, max_ids) THEN ids2
             ELSE extract_ids_loop(Tail(results), ids2, max_ids)

\* extract_ids_from_locate
extract_ids_from_locate(stdout, max_ids) ==
    IF ~stdout.json THEN <<>>
    ELSE extract_ids_loop(stdout.results, <<>>, max_ids)

\* main: run_cgrep_locate is called once, the cgrep loop starts
EngineLocate ==
    /\ e_pc = "locate"
    /\ \E stdout \in LocateStdouts, duration_ms \in LocateDurations :
        /\ locate_run' = [stdout |-> stdout, duration_ms |-> duration_ms]
        /\ locate_ids' = extract_ids_from_locate(stdout, args.expand_ids)
    /\ cgrep_attempts' = <<>> /\ cgrep_context_parts' = <<>>
    /\ cgrep_tokens_to_completion' = 0 /\ cgrep_latency_to_completion_ms' = 0
    /\ cgrep_completed' = FALSE /\ expanded_so_far' = 0
    /\ e_pc' = "cgrep"
    /\ UNCHANGED <<expand_runs, args, baseline_tiers, cgrep_tiers, baselineVars,
                   scenario_results, othersVars, reportVars>>

\* what `agent expand` does: exits 0 with the marker c, exits 0 with a long
\* text without markers, or fails
ExpandOutcomes ==
    { [returncode |-> 0, stdout |-> <<"c">>, stderr |-> <<>>, duration_ms |-> 1],
      [returncode |-> 0, stdout |-> <<"x", "x", "x", "x", "x", "x", "x", "x">>,
       stderr |-> <<>>, duration_ms |-> 2],
      [returncode |-> 1, stdout |-> <<>>, stderr |-> <<"e">>, duration_ms |-> 1] }

\* the value None of Python
None == [returncode |-> "None", duration_ms |-> 0]

\* the cgrep loop body from the parts to the payload; expand_run is None when
\* run_cgrep_expand had no ids
cgrep_attempt_payload(idx, expand_run, stdout) ==
    LET head == IF idx = 1
                THEN << <<"T">> \o Scenario.objective, <<>>, <<"=">>,
                        strip(stdout_text(stdout)), <<>> >>
                ELSE <<>>
        tail == IF expand_run = None THEN <<"[none]">>
                ELSE IF expand_run.returncode = 0 THEN strip(expand_run.stdout)
                ELSE <<"[failed]">> \o expand_run.stderr
    IN  strip(join(<<"\n">>, head \o << <<"=">>, tail >>))

\* a plausible bug: the locate call is charged to every attempt
locate_charged_always(idx) == TRUE

\* if idx == 1: ... cgrep_latency_to_completion_ms += locate_run.duration_ms
locate_charged(idx) == idx = 1

\* one pass of `for idx, tier in enumerate(cgrep_tiers, start=1)`
CgrepAttempt ==
    /\ e_pc = "cgrep"
    /\ LET idx == Len(cgrep_attempts) + 1
           tier == cgrep_tiers[idx]
           capped_tier == Min(tier, Len(locate_ids))
           next_ids == slice(locate_ids, expanded_so_far, capped_tier)
       IN  \E outcome \in ExpandOutcomes :
           LET expand_run == IF next_ids = <<>> THEN None ELSE outcome
               attempt_payload ==
                   cgrep_attempt_payload(idx, expand_run, locate_run.stdout)
               attempt_tokens == count_tokens(attempt_payload)
               parts == Append(cgrep_context_parts, attempt_payload)
               missing == missing_completion_groups(join(<<"\n", "\n">>, parts),
                                                    Scenario.completion_groups)
               completed == groups_all_met(missing)
           IN  /\ expand_runs' = IF expand_run = None THEN expand_runs
                                 ELSE Append(expand_runs,
                                             [ids |-> next_ids, attempt |-> idx,
                                              duration_ms |-> outcome.duration_ms])
               /\ cgrep_latency_to_completion_ms' =
                      cgrep_latency_to_completion_ms
                      + (IF locate_charged(idx) THEN locate_run.duration_ms ELSE 0)
                      + expand_run.duration_ms
               /\ cgrep_tokens_to_completion' =
                      tokens_added(cgrep_tokens_to_completion, attempt_tokens)
               /\ cgrep_context_parts' = parts
               /\ cgrep_completed' = completed
               /\ cgrep_attempts' = Append(cgrep_attempts,
                      \* plan_tier, added_from and attempt_payload are history
                      \* kept beside the record
                      [ tier |-> capped_tier, plan_tier |-> tier,
                        added_from |-> expanded_so_far,
                        added_ids |-> Len(next_ids),
                        attempt_payload |-> attempt_payload,
                        attempt_tokens |-> attempt_tokens,
                        cumulative_tokens |-> cgrep_tokens_to_completion',
                        completed |-> completed,
                        missing_markers |-> missing,
                        expand_returncode |-> expand_run.returncode,
                        expand_duration_ms |-> expand_run.duration_ms ])
               /\ expanded_so_far' = capped_tier
               /\ e_pc' = IF \/ loop_breaks(completed, capped_tier, Len(locate_ids))
                             \/ idx = Len(cgrep_tiers)
                          THEN "result" ELSE "cgrep"
    /\ UNCHANGED <<locate_run, locate_ids, args, baseline_tiers, cgrep_tiers,
                   baselineVars, scenario_results, othersVars, reportVars>>

RECURSIVE sum(_)
\* sum(...) of Python over a list of numbers
sum(xs) == IF xs = <<>> THEN 0 ELSE Head(xs) + sum(Tail(xs))

\* main, after the scenario loop: the totals and the summary
summary_of(rows) ==
    LET baseline_total_tokens ==
            sum([i \in DOMAIN rows |-> rows[i].baseline_tokens_to_completion])
        cgrep_total_tokens ==
            sum([i \in DOMAIN rows |-> rows[i].cgrep_tokens_to_completion])
    IN  [ baseline_total_tokens_to_completion |-> baseline_total_tokens,
          cgrep_total_tokens_to_completion |-> cgrep_total_tokens,
          token_reduction_percent_to_completion |->
              reduction_percent(baseline_total_tokens, cgrep_total_tokens).val,
          token_compression_x_to_completion |->
              compression_x(baseline_total_tokens, cgrep_total_tokens).val,
          baseline_total_latency_ms_to_completion |->
              sum([i \in DOMAIN rows |-> rows[i].baseline_latency_ms_to_completion]),
          cgrep_total_latency_ms_to_completion |->
              sum([i \in DOMAIN rows |-> rows[i].cgrep_latency_ms_to_completion]),
          baseline_completed_scenarios |->
              Cardinality({i \in DOMAIN rows : rows[i].baseline_completed}),
          cgrep_completed_scenarios |->
              Cardinality({i \in DOMAIN rows : rows[i].cgrep_completed}) ]

\* main: scenario_results.append({...}); the scenario is the last one, so the
\* summary is made, the reports are written and main returns 0
EngineScenarioResult ==
    /\ e_pc = "result"
    /\ scenario_results' = Append(scenario_results,
          [ baseline_tokens_to_completion |-> baseline_tokens_to_completion,
            cgrep_tokens_to_completion |-> cgrep_tokens_to_completion,
            token_reduction_percent_to_completion |->
                reduction_percent(baseline_tokens_to_completion,
                                  cgrep_tokens_to_completion).val,
            baseline_missing_markers |->
                baseline_attempts[Len(baseline_attempts)].missing_markers,
            cgrep_missing_markers |->
                cgrep_attempts[Len(cgrep_attempts)].missing_markers,
            baseline_latency_ms_to_completion |-> baseline_latency_to_completion_ms,
            cgrep_latency_ms_to_completion |-> cgrep_latency_to_completion_ms,
            baseline_attempts |-> Len(baseline_attempts),
            cgrep_attempts |-> Len(cgrep_attempts),
            baseline_completed |-> baseline_completed,
            cgrep_completed |-> cgrep_completed ])
    /\ e_summary' = summary_of(scenario_results')
    /\ e_exit' = 0
    /\ e_pc' = "done"
    /\ UNCHANGED <<args, baseline_tiers, cgrep_tiers, baselineVars, cgrepVars,
                   othersVars, index_run>>

NextEngine ==
    \/ EngineValidate
    \/ EngineIndex
    \/ EngineGrep
    \/ BaselineAttempt
    \/ EngineLocate
    \/ CgrepAttempt
    \/ EngineScenarioResult

SpecEngine == InitEngine /\ [][NextEngine]_vars

(***************************************************************************)
(* Claims about the tiered attempt loops of                                *)
(* benchmark_agent_token_efficiency.main                                   *)
(***************************************************************************)

\* the baseline loop has been left
BaselineLoopLeft == e_pc \in {"locate", "cgrep", "result", "done"}

\* the cgrep loop has been left
CgrepLoopLeft == e_pc \in {"result", "done"}

\* every record but the last is neither completed nor at the pool size
StoppedAtFirst(attempts, pool) ==
    \A i \in 1..(Len(attempts) - 1) :
        /\ ~attempts[i].completed
        /\ attempts[i].tier < Len(pool)

\* the scenario-level flag is the flag of the last record
FlagOfLast(attempts, flag) ==
    attempts # <<>> => flag = attempts[Len(attempts)].completed

\* C13: in each strategy's attempt sequence no attempt follows a completed
\* attempt and none follows an attempt whose capped tier reached the pool
\* size, so at most one record is completed and it is the last one; the
\* scenario-level completed flag equals the completed flag of the last record.
C13_StopsAtCompletionOrExhaustion ==
    /\ StoppedAtFirst(baseline_attempts, ordered_files)
    /\ StoppedAtFirst(cgrep_attempts, locate_ids)
    /\ Cardinality({i \in DOMAIN baseline_attempts :
                        baseline_attempts[i].completed}) <= 1
    /\ Cardinality({i \in DOMAIN cgrep_attempts :
                        cgrep_attempts[i].completed}) <= 1
    /\ FlagOfLast(baseline_attempts, baseline_completed)
    /\ FlagOfLast(cgrep_attempts, cgrep_completed)
    /\ e_pc = "done" =>
          /\ baseline_attempts # <<>> /\ cgrep_attempts # <<>>
          /\ scenario_results[1].baseline_completed =
                 baseline_attempts[Len(baseline_attempts)].completed
          /\ scenario_results[1].cgrep_completed =
                 cgrep_attempts[Len(cgrep_attempts)].completed

\* a first attempt completes below the pool size with a tier left in the plan,
\* and a second attempt completes after a first that did not
C13_Witness ==
    /\ e_pc = "done"
    /\ Len(baseline_tiers) = 2 /\ Len(baseline_attempts) = 1
    /\ baseline_attempts[1].completed
    /\ baseline_attempts[1].tier < Len(ordered_files)
    /\ Len(cgrep_attempts) = 2
    /\ ~cgrep_attempts[1].completed /\ cgrep_attempts[2].completed

\* C14: with an empty evidence pool a strategy records exactly one attempt,
\* with capped tier 0 and zero added units, and the scenario is exhausted with
\* completed = FALSE for that strategy; no expand command is invoked.
C14_EmptyPoolExhausted ==
    /\ (BaselineLoopLeft /\ ordered_files = <<>>) =>
          /\ Len(baseline_attempts) = 1
          /\ baseline_attempts[1].tier = 0
          /\ baseline_attempts[1].added_files = 0
          /\ ~baseline_completed
    /\ (CgrepLoopLeft /\ locate_ids = <<>>) =>
          /\ Len(cgrep_attempts) = 1
          /\ cgrep_attempts[1].tier = 0
          /\ cgrep_attempts[1].added_ids = 0
          /\ expand_runs = <<>>
          /\ ~cgrep_completed

RECURSIVE SumTokens(_, _)
\* attempt_tokens of the first n records, added up
SumTokens(attempts, n) ==
    IF n = 0 THEN 0
    ELSE SumTokens(attempts, n - 1) + attempts[n].attempt_tokens

\* each record carries the running total, and the totals never go down
CumulativeIsSum(attempts) ==
    /\ \A i \in DOMAIN attempts :
          attempts[i].cumulative_tokens = SumTokens(attempts, i)
    /\ \A i \in 1..(Len(attempts) - 1) :
          attempts[i].cumulative_tokens <= attempts[i + 1].cumulative_tokens

\* C15: the cumulative_tokens of every attempt record is the sum of the
\* attempt_tokens of the records up to and including it, so it never
\* decreases; tokens_to_completion is the sum over all recorded attempts and
\* equals the cumulative_tokens of the last record.
C15_CumulativeTokens ==
    /\ CumulativeIsSum(baseline_attempts)
    /\ CumulativeIsSum(cgrep_attempts)
    /\ baseline_attempts # <<>> =>
          /\ baseline_tokens_to_completion =
                 SumTokens(baseline_attempts, Len(baseline_attempts))
          /\ baseline_tokens_to_completion =
                 baseline_attempts[Len(baseline_attempts)].cumulative_tokens
    /\ cgrep_attempts # <<>> =>
          /\ cgrep_tokens_to_completion =
                 SumTokens(cgrep_attempts, Len(cgrep_attempts))
          /\ cgrep_tokens_to_completion =
                 cgrep_attempts[Len(cgrep_attempts)].cumulative_tokens
    /\ e_pc = "done" =>
          /\ scenario_results[1].baseline_tokens_to_completion =
                 SumTokens(baseline_attempts, Len(baseline_attempts))
          /\ scenario_results[1].cgrep_tokens_to_completion =
                 SumTokens(cgrep_attempts, Len(cgrep_attempts))

\* both strategies took two attempts, the second one costing tokens
C15_Witness ==
    /\ e_pc = "done"
    /\ Len(baseline_attempts) = 2 /\ Len(cgrep_attempts) = 2
    /\ baseline_attempts[2].attempt_tokens > 0
    /\ cgrep_attempts[2].attempt_tokens > 0
    /\ scenario_results[1].cgrep_tokens_to_completion >
           cgrep_attempts[1].attempt_tokens

\* C16: when the first tier of a strategy already satisfies every completion
\* group, that strategy ends with attempts = 1 and tokens_to_completion equal
\* to the cost of that single attempt: no further tier is taken from the plan,
\* no further expand call is issued and no tokens or latency are added.
C16_FirstTierCompletes ==
    /\ (baseline_attempts # <<>> /\ baseline_attempts[1].completed) =>
          /\ e_pc # "baseline"
          /\ Len(baseline_attempts) = 1
          /\ baseline_tokens_to_completion = baseline_attempts[1].attempt_tokens
          /\ baseline_latency_to_completion_ms = grep_run.duration_ms
          /\ e_pc = "done" =>
                /\ scenario_results[1].baseline_attempts = 1
                /\ scenario_results[1].baseline_tokens_to_completion =
                       baseline_attempts[1].attempt_tokens
    /\ (cgrep_attempts # <<>> /\ cgrep_attempts[1].completed) =>
          /\ e_pc # "cgrep"
          /\ Len(cgrep_attempts) = 1
          /\ cgrep_tokens_to_completion = cgrep_attempts[1].attempt_tokens
          /\ \A i \in DOMAIN expand_runs : expand_runs[i].attempt = 1
          /\ Len(expand_runs) <= 1
          /\ cgrep_latency_to_completion_ms =
                 locate_run.duration_ms + cgrep_attempts[1].expand_duration_ms
          /\ e_pc = "done" =>
                /\ scenario_results[1].cgrep_attempts = 1
                /\ scenario_results[1].cgrep_tokens_to_completion =
                       cgrep_attempts[1].attempt_tokens

\* the plans have a second tier within the pools, and both strategies
\* completed at the first
C16_Witness ==
    /\ e_pc = "done"
    /\ baseline_tiers = <<1, 2>> /\ cgrep_tiers = <<1, 2>>
    /\ Len(ordered_files) = 2 /\ Len(locate_ids) = 2
    /\ baseline_attempts[1].completed /\ cgrep_attempts[1].completed
    /\ Len(expand_runs) = 1
    /\ scenario_results[1].baseline_attempts = 1
    /\ scenario_results[1].cgrep_attempts = 1

RECURSIVE SumDurations(_)
\* duration_ms of the calls of a list, added up
SumDurations(issued) ==
    IF issued = <<>> THEN 0
    ELSE Head(issued).duration_ms + SumDurations(Tail(issued))

\* C17: the shared retrieval cost is charged once per strategy and scenario,
\* to the first attempt: the baseline latency to completion is the duration of
\* the single grep call, the cgrep latency to completion is the duration of
\* the locate call plus the durations of the expand calls actually issued, an
\* attempt without an expand call adding nothing.
C17_LatencyChargedOnce ==
    /\ baseline_attempts # <<>> =>
          baseline_latency_to_completion_ms = grep_run.duration_ms
    /\ cgrep_attempts # <<>> =>
          /\ cgrep_latency_to_completion_ms =
                 locate_run.duration_ms + SumDurations(expand_runs)
          /\ \A i \in DOMAIN cgrep_attempts :
                cgrep_attempts[i].added_ids = 0 =>
                    /\ cgrep_attempts[i].expand_duration_ms = 0
                    /\ \A j \in DOMAIN expand_runs : expand_runs[j].attempt # i
    /\ e_pc = "done" =>
          /\ scenario_results[1].baseline_latency_ms_to_completion =
                 grep_run.duration_ms
          /\ scenario_results[1].cgrep_latency_ms_to_completion =
                 locate_run.duration_ms + SumDurations(expand_runs)

\* two attempts of each strategy, two expand calls issued
C17_Witness ==
    /\ e_pc = "done"
    /\ Len(baseline_attempts) = 2
    /\ Len(cgrep_attempts) = 2 /\ Len(expand_runs) = 2
    /\ scenario_results[1].cgrep_latency_ms_to_completion >
           locate_run.duration_ms + expand_runs[1].duration_ms
    /\ scenario_results[1].baseline_latency_ms_to_completion = grep_run.duration_ms

\* a counted payload is no longer than the maximum plus the marker
PayloadsBounded(attempts) ==
    \A i \in DOMAIN attempts :
        Len(attempts[i].attempt_payload) <= args.baseline_max_chars + Len(TRUNCATED)

\* C18: every attempt payload that is token-counted and appended to the
\* cumulative context, of the baseline strategy and of the cgrep strategy, is
\* no longer than the configured maximum character count plus the truncation
\* marker.
C18_PayloadsBounded ==
    /\ PayloadsBounded(baseline_attempts)
    /\ PayloadsBounded(cgrep_attempts)

\* the tier of every record is the plan's tier capped at the pool size
TierIsCapped(attempts, pool) ==
    \A i \in DOMAIN attempts :
        /\ attempts[i].tier = Min(attempts[i].plan_tier, Len(pool))
        /\ attempts[i].tier <= Len(pool)

\* the entries of a list are pairwise different
Distinct(seq) == \A i, j \in DOMAIN seq : seq[i] = seq[j] => i = j

\* the command line carries a plan that parses and whose largest tier is
\* above the maximum of its pool
PlanAboveMaximum ==
    LET b == parse_tiers(args.baseline_file_tiers)
        c == parse_tiers(args.cgrep_expand_tiers)
    IN  /\ b.exc = "none" /\ c.exc = "none"
        /\ \/ max(b.val) > args.baseline_max_files
           \/ max(c.val) > args.expand_ids

\* C20: in every attempt record the tier is min(plan tier, pool size), hence
\* at most the pool size; the baseline pool holds at most --baseline-max-files
\* distinct files and the cgrep pool at most --expand-ids ids; a tier plan
\* whose largest value exceeds its maximum is never executed.
C20_TiersCappedAtPool ==
    /\ TierIsCapped(baseline_attempts, ordered_files)
    /\ TierIsCapped(cgrep_attempts, locate_ids)
    /\ e_pc \notin {"start", "exit"} =>
          /\ Len(ordered_files) <= args.baseline_max_files
          /\ Distinct(ordered_files)
          /\ Len(locate_ids) <= args.expand_ids
    /\ PlanAboveMaximum =>
          /\ e_pc \in {"start", "exit"}
          /\ grep_run = <<>> /\ locate_run = <<>>
          /\ baseline_attempts = <<>> /\ cgrep_attempts = <<>>

\* more files matched and more rows located than the maxima allow, and the
\* plan's second tier was capped at the pool
C20_Witness ==
    /\ e_pc = "done"
    /\ args.baseline_max_files = 1 /\ args.expand_ids = 1
    /\ Len(grep_run.stdout) = 2 /\ grep_run.stdout[1].rel = "f2"
    /\ grep_run.stdout[2].rel = "f1"
    /\ Len(ordered_files) = 1
    /\ Len(locate_run.stdout.results) = 2 /\ Len(locate_ids) = 1
    /\ baseline_attempts[1].plan_tier = 1 /\ baseline_attempts[1].tier = 1

-----------------------------------------------------------------------------
(* Claims about whole runs of the gates and of the benchmarks              *)

\* C30: in agent_plan_perf_gate.main, when the candidate supports `agent
\* plan` and the baseline binary does not, the baseline binary is never
\* measured, the baseline metrics and percentiles are copies of the
\* candidate's, every regression percentage and absolute delta is 0, the
\* failed list is empty and the gate exits 0, whatever the candidate's
\* latencies.
C30_SelfBaselineFallback ==
    (env # <<>> /\ env.candidate_plan /\ ~env.baseline_plan) =>
        /\ binary # "baseline"
        /\ invocations <= InvocationsPerBinary
        /\ pc \in {"measured", "exited"} /\ candidate # <<>> =>
              /\ baseline = candidate
              /\ baseline_percentiles = candidate_percentiles
              /\ invocations = InvocationsPerBinary
        /\ pc = "exited" /\ candidate # <<>> =>
              /\ \A k \in Range(AgentMetrics) :
                    regressions[k] = 0 /\ absolute_deltas[k] = 0
              /\ failed = <<>>
              /\ exit_status = 0

\* the fallback run ended, the candidate's metrics differing from each other
C30_Witness ==
    /\ pc = "exited" /\ env.candidate_plan /\ ~env.baseline_plan
    /\ candidate # <<>> /\ baseline = candidate
    /\ candidate["plan_simple_ms"] # candidate["plan_complex_ms"]
    /\ exit_status = 0 /\ failed = <<>>
    /\ invocations = InvocationsPerBinary

\* the positions of the pool an attempt added: those after the previous
\* attempt's cap, up to its own
AddedPositions(attempt) == (attempt.added_from + 1)..attempt.tier

\* added_files of a baseline record, added_ids of a cgrep record
AddedUnits(attempt) ==
    IF "added_files" \in DOMAIN attempt THEN attempt.added_files
    ELSE attempt.added_ids

\* the units an attempt added are the pool prefix of its cap without the
\* prefix of the previous attempt's cap
AddsDifference(attempts) ==
    \A i \in DOMAIN attempts :
        /\ attempts[i].added_from = IF i = 1 THEN 0 ELSE attempts[i - 1].tier
        /\ AddedUnits(attempts[i]) = Cardinality(AddedPositions(attempts[i]))
        /\ AddedPositions(attempts[i]) =
               (1..attempts[i].tier) \ (1..attempts[i].added_from)

\* no position of the pool is added by two attempts
AddedOnce(attempts) ==
    \A i, j \in DOMAIN attempts :
        i # j => AddedPositions(attempts[i]) \cap AddedPositions(attempts[j]) = {}

RECURSIVE SumAdded(_, _)
\* the added units of the first n records, added up
SumAdded(attempts, n) ==
    IF n = 0 THEN 0 ELSE SumAdded(attempts, n - 1) + AddedUnits(attempts[n])

\* C28: for every accepted tier plan, increasing or not, and every pool, the
\* units newly added by an attempt are the units of the pool prefix of its cap
\* that were not in the previous attempt's cap; no file or id is added by more
\* than one attempt of a strategy, and the sum of added_files (added_ids) over
\* the attempts never exceeds the pool size.
C28_UnitsAddedOnce ==
    /\ AddsDifference(baseline_attempts)
    /\ AddsDifference(cgrep_attempts)
    /\ AddedOnce(baseline_attempts)
    /\ AddedOnce(cgrep_attempts)
    /\ SumAdded(baseline_attempts, Len(baseline_attempts))
           <= Len(ordered_files)
    /\ SumAdded(cgrep_attempts, Len(cgrep_attempts))
           <= Len(locate_ids)

\* a loop that has ended is COMPLETED or EXHAUSTED, after 1 to len(plan)
\* attempts
EndedInOneState(attempts, tiers, pool, flag) ==
    LET last == attempts[Len(attempts)]
    IN  /\ 1 <= Len(attempts) /\ Len(attempts) <= Len(tiers)
        /\ flag = last.completed
        /\ last.completed <=> last.missing_markers = <<>>
        /\ ~last.completed =>
              \/ last.tier >= Len(pool)
              \/ Len(attempts) = Len(tiers)

-----------------------------------------------------------------------------
(* Claims about the token ratios of benchmark_agent_token_efficiency.main  *)

\* C23: the token reduction percentage, of a scenario and of the summary, is
\* (baseline_tokens - cgrep_tokens) / baseline_tokens * 100 when
\* baseline_tokens > 0 and 0.0 when baseline_tokens is 0, without a division
\* by zero, whatever the cgrep token count.
C23_ReductionPercent ==
    fn = "reduction_percent" =>
        /\ ret.exc = "none"
        /\ arg.baseline_tokens > 0 =>
              ret.val.n * arg.baseline_tokens =
                  (arg.baseline_tokens - arg.cgrep_tokens) * 100 * ret.val.d
        /\ arg.baseline_tokens = 0 => RatEq(ret.val, Rat(0, 1))

\* the baseline counted no token and cgrep some
C23_Witness ==
    /\ fn = "reduction_percent"
    /\ arg.baseline_tokens = 0 /\ arg.cgrep_tokens = 3
    /\ ret.exc = "none" /\ ret.val.n = 0

\* C24: the aggregate compression ratio is baseline_total / cgrep_total when
\* cgrep_total > 0, +infinity when cgrep_total is 0 and baseline_total > 0,
\* and is computed without an exception when both totals are 0.
C24_CompressionRatio ==
    fn = "compression_x" =>
        /\ ret.exc = "none"
        /\ arg.cgrep_tokens > 0 =>
              /\ ret.val.d > 0
              /\ ret.val.n * arg.cgrep_tokens = arg.baseline_tokens * ret.val.d
        /\ (arg.cgrep_tokens = 0 /\ arg.baseline_tokens > 0) => ret.val = inf

\* both totals are 0
C24_Witness ==
    /\ fn = "compression_x"
    /\ arg.baseline_tokens = 0 /\ arg.cgrep_tokens = 0
    /\ ret.exc = "none"

-----------------------------------------------------------------------------
(* SpecTokenGate: a whole run of token_gate.main.  Every invocation (the   *)
(* index build, grep and cgrep search of each scenario) is part of a step; *)
(* an exception nobody catches ends the interpreter with status 1.         *)

MaxQueries == 2      \* scenarios of token_gate (the code has four)

\* token_gate.estimate_tokens, of a text of n characters
estimate_tokens(n) == (n + 3) \div 4

\* what grep does: matches, no match (exit 1), or an error (exit 2)
TgGrepOutcomes ==
    { [returncode |-> 0, stdout |-> 40], [returncode |-> 1, stdout |-> 0],
      [returncode |-> 2, stdout |-> 0] }

\* what `cgrep search` does: it fails, or prints JSON with the expected path,
\* JSON without it, or something json.loads rejects
TgCgrepOutcomes ==
    { [returncode |-> 1, stdout |-> 0, json |-> "none"],
      [returncode |-> 0, stdout |-> 8, json |-> "hit"],
      [returncode |-> 0, stdout |-> 36, json |-> "hit"],
      [returncode |-> 0, stdout |-> 8, json |-> "miss"],
      [returncode |-> 0, stdout |-> 8, json |-> "invalid"] }

TgBaselineMs == {100}

TgCgrepMs == {100, 130}

InitTokenGate ==
    /\ tg_pc = "start" /\ tg_env \in [binary_exists : BOOLEAN]
    /\ indexed = <<>> /\ query = 0
    /\ reductions = <<>> /\ baseline_latencies = <<>> /\ cgrep_latencies = <<>>
    /\ misses = <<>> /\ tg_calls = <<>> /\ tg_summary = <<>> /\ tg_exit = -1
    /\ CfgIdle /\ FnIdle /\ SamplerIdle /\ GateIdle /\ MainIdle /\ RunCaseIdle
    /\ e_pc = "idle" /\ args = <<>> /\ baseline_tiers = <<>> /\ cgrep_tiers = <<>>
    /\ BaselineIdle /\ CgrepIdle /\ scenario_results = <<>> /\ ReportIdle
    /\ CodexIdle

tgOthers == <<cfgVars, fnVars, samplerVars, gateVars, mainVars, runCaseVars,
              engineVars, codexVars>>

\* main: if not binary.exists(): return 2
TgStart ==
    /\ tg_pc = "start"
    /\ IF ~tg_env.binary_exists
       THEN tg_pc' = "exited" /\ tg_exit' = 2
       ELSE tg_pc' = "index" /\ UNCHANGED tg_exit
    /\ UNCHANGED <<tg_env, indexed, query, reductions, baseline_latencies,
                   cgrep_latencies, misses, tg_calls, tg_summary, tgOthers>>

\* main: generate_repo, the index build; a failure returns 1
TgIndex ==
    /\ tg_pc = "index"
    /\ \E returncode \in {0, 1} :
        /\ indexed' = [returncode |-> returncode]
        /\ tg_calls' = Append(tg_calls, [cmd |-> "index", returncode |-> returncode,
                                         query |-> 0])
        /\ IF returncode # 0
           THEN tg_pc' = "exited" /\ tg_exit' = 1 /\ UNCHANGED query
           ELSE tg_pc' = "scenario" /\ query' = 1 /\ UNCHANGED tg_exit
    /\ UNCHANGED <<tg_env, reductions, baseline_latencies, cgrep_latencies, misses,
                   tg_summary, tgOthers>>

\* a plausible bug: any non-zero status of grep aborts
grep_aborts_on_nonzero(returncode) == returncode # 0

\* if baseline.returncode not in (0, 1): ... return 1
grep_aborts(returncode) == returncode \notin {0, 1}

\* json.loads(cgrep.stdout)
json_loads(text) ==
    IF text = "invalid" THEN Raised("JSONDecodeError") ELSE Returned(text)

\* reduction = 1.0 - (cgrep_tokens / baseline_tokens), in 1/10000 (exact for
\* the token counts of the outcomes above)
reduction_of(cgrep_tokens, baseline_tokens) ==
    10000 - (10000 * cgrep_tokens) \div baseline_tokens

\* one pass of `for query, expected_path in scenarios`
TgScenario ==
    /\ tg_pc = "scenario"
    /\ \E baseline_run \in TgGrepOutcomes, baseline_ms \in TgBaselineMs,
          cgrep_run \in TgCgrepOutcomes, cgrep_ms \in TgCgrepMs :
        LET grep_call == [cmd |-> "grep", returncode |-> baseline_run.returncode,
                          query |-> query]
            cgrep_call == [cmd |-> "cgrep", returncode |-> cgrep_run.returncode,
                           query |-> query]
            estimated == estimate_tokens(baseline_run.stdout)
            baseline_tokens == IF estimated <= 0 THEN 1 ELSE estimated
            cgrep_tokens == estimate_tokens(cgrep_run.stdout)
            payload == json_loads(cgrep_run.json)
            measured ==
                /\ reductions' = Append(reductions,
                                        reduction_of(cgrep_tokens, baseline_tokens))
                /\ baseline_latencies' = Append(baseline_latencies, baseline_ms)
                /\ cgrep_latencies' = Append(cgrep_latencies, cgrep_ms)
        IN  IF grep_aborts(baseline_run.returncode)
            THEN /\ tg_calls' = Append(tg_calls, grep_call)
                 /\ tg_pc' = "exited" /\ tg_exit' = 1
                 /\ UNCHANGED <<query, reductions, baseline_latencies,
                                cgrep_latencies, misses>>
            ELSE IF cgrep_run.returncode # 0
            THEN /\ tg_calls' = tg_calls \o <<grep_call, cgrep_call>>
                 /\ tg_pc' = "exited" /\ tg_exit' = 1
                 /\ UNCHANGED <<query, reductions, baseline_latencies,
                                cgrep_latencies, misses>>
            ELSE IF payload.exc # "none"
            THEN /\ tg_calls' = tg_calls \o <<grep_call, cgrep_call>>
                 /\ measured
                 /\ tg_pc' = "raised" /\ tg_exit' = 1
                 /\ UNCHANGED <<query, misses>>
            ELSE /\ tg_calls' = tg_calls \o <<grep_call, cgrep_call>>
                 /\ measured
                 /\ misses' = IF payload.val = "miss" THEN Append(misses, query)
                              ELSE misses
                 /\ IF query = MaxQueries
                    THEN tg_pc' = "summary" /\ UNCHANGED query
                    ELSE tg_pc' = "scenario" /\ query' = query + 1
                 /\ UNCHANGED tg_exit
    /\ UNCHANGED <<tg_env, indexed, tg_summary, tgOthers>>

\* main, after the loop: the summary is printed and the three checks decide
TgSummary ==
    /\ tg_pc = "summary"
    /\ LET p95_reduction == token_gate_percentile(reductions, 95)   \* in 1/10000
           p95_baseline_latency == token_gate_percentile(baseline_latencies, 95)
           p95_cgrep_latency == token_gate_percentile(cgrep_latencies, 95)
           latency_ratio ==
               IF RatLess(Rat(0, 1), p95_baseline_latency)
               THEN Rat(p95_cgrep_latency.n * p95_baseline_latency.d,
                        p95_cgrep_latency.d * p95_baseline_latency.n)
               ELSE inf
       IN  /\ tg_summary' = [ p95_reduction_percent |-> p95_reduction,
                              latency_ratio |-> latency_ratio,
                              misses |-> misses ]
           /\ tg_exit' = IF misses # <<>> THEN 1
                         ELSE IF RatLess(p95_reduction, Rat(3000, 1)) THEN 1
                         ELSE IF latency_ratio = inf
                                 \/ RatLess(Rat(12, 10), latency_ratio) THEN 1
                         ELSE 0
    /\ tg_pc' = "exited"
    /\ UNCHANGED <<tg_env, indexed, query, reductions, baseline_latencies,
                   cgrep_latencies, misses, tg_calls, tgOthers>>

NextTokenGate ==
    \/ TgStart
    \/ TgIndex
    \/ TgScenario
    \/ TgSummary

SpecTokenGate == InitTokenGate /\ [][NextTokenGate]_vars

-----------------------------------------------------------------------------
(* SpecIndexMain: a whole run of index_perf_gate.main.  measure(binary)    *)
(* is one step: every command in it is run with check=True, so it either   *)
(* returns the p50 of each metric or raises CalledProcessError, which      *)
(* nobody catches.                                                         *)

\* the p50 of a metric, in hundredths of a ms
IndexP50s == {0, 200, 10000, 11500}

InitIndexMain ==
    /\ gate = "index" /\ pc = "start"
    /\ runs \in 0..MainMaxRuns /\ warmup \in -1..MainMaxWarmup /\ files \in {0, 1}
    /\ env \in [baseline_exists : BOOLEAN, candidate_exists : BOOLEAN]
    /\ binary = "none" /\ metric = 0 /\ measured_samples = <<>>
    /\ baseline = <<>> /\ candidate = <<>>
    /\ candidate_percentiles = <<>> /\ baseline_percentiles = <<>>
    /\ regressions = <<>> /\ absolute_deltas = <<>> /\ failed = <<>>
    /\ exit_status = -1 /\ invocations = 0
    /\ FnIdle /\ SamplerIdle /\ RunCaseIdle
    /\ EngineIdle

\* main: the checks of --runs, --warmup, --files and of the two paths
IndexValidate ==
    /\ gate = "index" /\ pc = "start"
    /\ IF \/ runs < 1 \/ warmup < 0 \/ files < 1
          \/ ~env.baseline_exists \/ ~env.candidate_exists
       THEN pc' = "exited" /\ exit_status' = 2 /\ UNCHANGED binary
       ELSE pc' = "measure" /\ binary' = "baseline" /\ UNCHANGED exit_status
    /\ UNCHANGED <<gateRest, env, metric, measured_samples, candidate_percentiles,
                   baseline_percentiles, invocations>>
    /\ UNCHANGED <<cfgVars, fnVars, samplerVars, runCaseVars>>
    /\ UNCHANGED <<engineVars, tokenGateVars, codexVars>>

\* main: measure(baseline_bin, ...) and then measure(candidate_bin, ...)
IndexMeasure ==
    /\ gate = "index" /\ pc = "measure"
    /\ invocations' = invocations + 1
    /\ \/ /\ pc' = "raised" /\ exit_status' = 1
          /\ UNCHANGED <<binary, baseline, candidate>>
       \/ \E p50 \in IndexP50s :
            LET metrics == index_metrics([k \in Range(IndexLatencyMetrics) |-> p50],
                                         files)
            IN  IF binary = "baseline"
                THEN /\ baseline' = metrics /\ binary' = "candidate"
                     /\ pc' = "measure"
                     /\ UNCHANGED <<candidate, exit_status>>
                ELSE /\ candidate' = metrics /\ pc' = "measured"
                     /\ UNCHANGED <<binary, baseline, exit_status>>
    /\ UNCHANGED <<gate, regressions, absolute_deltas, failed>>
    /\ UNCHANGED <<env, metric, measured_samples, candidate_percentiles,
                   baseline_percentiles>>
    /\ UNCHANGED <<cfgVars, fnVars, samplerVars, runCaseVars>>
    /\ UNCHANGED <<engineVars, tokenGateVars, codexVars>>

NextIndexMain ==
    \/ IndexValidate
    \/ IndexMeasure
    \/ DecideIndex

SpecIndexMain == InitIndexMain /\ [][NextIndexMain]_vars

-----------------------------------------------------------------------------
(* SpecCodex: a whole run of benchmark_codex_agent_efficiency.main with    *)
(* one scenario.  Each call of run_codex_mode and the results.append that  *)
(* follows it is one step; the position in the loops is the number of rows.*)

CodexMaxRuns == 2    \* largest --runs of the Codex benchmark

CodexModes == <<"baseline", "cgrep">>

\* what `codex exec` does within run_codex_mode: it runs into the timeout,
\* or it exits; usage is the last turn.completed event of its stdout
CodexOutcomes ==
    { [timeout |-> TRUE, returncode |-> 0, duration_ms |-> 600,
       input_tokens |-> 0, cached_input_tokens |-> 0, output_tokens |-> 0,
       command_count |-> 0, answered |-> FALSE],
      [timeout |-> FALSE, returncode |-> 1, duration_ms |-> 7,
       input_tokens |-> 8, cached_input_tokens |-> 4, output_tokens |-> 2,
       command_count |-> 1, answered |-> FALSE],
      [timeout |-> FALSE, returncode |-> 0, duration_ms |-> 9,
       input_tokens |-> 12, cached_input_tokens |-> 4, output_tokens |-> 4,
       command_count |-> 3, answered |-> TRUE],
      [timeout |-> FALSE, returncode |-> 0, duration_ms |-> 5,
       input_tokens |-> 6, cached_input_tokens |-> 0, output_tokens |-> 2,
       command_count |-> 2, answered |-> FALSE] }

\* run_codex_mode: the CodexRun of an outcome; answered says that the final
\* message met the objective, the markers and the command policy
run_codex_mode(outcome) ==
    IF outcome.timeout
    THEN [ success |-> FALSE, duration_ms |-> outcome.duration_ms,
           command_count |-> 0, total_tokens |-> 0, billable_tokens |-> 0,
           errors |-> <<"timeout after">> ]
    ELSE [ success |-> outcome.returncode = 0 /\ outcome.answered,
           duration_ms |-> outcome.duration_ms,
           command_count |-> outcome.command_count,
           total_tokens |-> outcome.input_tokens + outcome.output_tokens,
           billable_tokens |-> (outcome.input_tokens - outcome.cached_input_tokens)
                               + outcome.output_tokens,
           errors |-> IF outcome.returncode # 0 THEN <<"stderr">> ELSE <<>> ]

\* benchmark_codex_agent_efficiency.median
codex_median(values) == IF values = <<>> THEN Rat(0, 1) ELSE median(values).val

Column(rows, field) == [i \in DOMAIN rows |-> rows[i][field]]

\* aggregate_mode
aggregate_mode(rows) ==
    IF rows = <<>>
    THEN [ cases |-> 0, successes |-> 0,
           median_total_tokens |-> Rat(0, 1), median_billable_tokens |-> Rat(0, 1),
           p95_billable_tokens |-> Rat(0, 1), median_duration_ms |-> Rat(0, 1),
           median_commands |-> Rat(0, 1), total_billable_tokens |-> 0 ]
    ELSE [ cases |-> Len(rows),
           successes |-> Cardinality({i \in DOMAIN rows : rows[i].success}),
           median_total_tokens |-> codex_median(Column(rows, "total_tokens")),
           median_billable_tokens |-> codex_median(Column(rows, "billable_tokens")),
           p95_billable_tokens |->
               codex_percentile(Column(rows, "billable_tokens"), 95),
           median_duration_ms |-> codex_median(Column(rows, "duration_ms")),
           median_commands |-> codex_median(Column(rows, "command_count")),
           total_billable_tokens |-> sum(Column(rows, "billable_tokens")) ]

\* mode_order of a run: baseline first in the odd runs
mode_order(run_index) ==
    IF run_index % 2 = 1 THEN <<"baseline", "cgrep">> ELSE <<"cgrep", "baseline">>

RowsOfMode(rows, mode) ==
    LET keep == {i \in DOMAIN rows : rows[i].mode = mode}
        RECURSIVE pick(_)
        pick(i) == IF i > Len(rows) THEN <<>>
                   ELSE IF i \in keep THEN <<rows[i]>> \o pick(i + 1)
                   ELSE pick(i + 1)
    IN  pick(1)

InitCodex ==
    /\ cx_pc = "start" /\ codex_results = <<>> /\ codex_summary = <<>>
    /\ runs \in 0..CodexMaxRuns /\ warmup = 0 /\ files = 0
    /\ FnIdle /\ SamplerIdle /\ GateIdle /\ MainIdle /\ RunCaseIdle
    /\ e_pc = "idle" /\ args = <<>> /\ baseline_tiers = <<>> /\ cgrep_tiers = <<>>
    /\ BaselineIdle /\ CgrepIdle /\ scenario_results = <<>> /\ ReportIdle
    /\ TokenGateIdle

cxOthers == <<cfgVars, fnVars, samplerVars, gateVars, mainVars, runCaseVars,
              engineVars, tokenGateVars>>

\* main: the checks of the paths and of --runs, then the index build; each
\* failure raises SystemExit
CodexStart ==
    /\ cx_pc = "start"
    /\ \E paths_ok \in BOOLEAN, index_returncode \in {0, 1} :
        cx_pc' = IF ~paths_ok \/ runs <= 0 \/ index_returncode # 0
                 THEN "exit" ELSE "runs"
    /\ UNCHANGED <<codex_results, codex_summary, cxOthers>>

\* main: run = run_codex_mode(...); results.append({...})
CodexRunMode ==
    /\ cx_pc = "runs" /\ Len(codex_results) < 2 * runs
    /\ LET run_index == (Len(codex_results) \div 2) + 1
           mode == mode_order(run_index)[(Len(codex_results) % 2) + 1]
       IN  \E outcome \in CodexOutcomes :
            LET run == run_codex_mode(outcome)
            IN  codex_results' =
                    Append(codex_results,
                           [ run_index |-> run_index, mode |-> mode,
                             success |-> run.success,
                             command_count |-> run.command_count,
                             total_tokens |-> run.total_tokens,
                             billable_tokens |-> run.billable_tokens,
                             duration_ms |-> run.duration_ms,
                             errors |-> run.errors ])
    /\ UNCHANGED <<cx_pc, codex_summary, cxOthers>>

\* main: after the loops, the rows of each mode are aggregated
CodexSummary ==
    /\ cx_pc = "runs" /\ Len(codex_results) = 2 * runs
    /\ codex_summary' =
           [mode \in Range(CodexModes) |->
               aggregate_mode(RowsOfMode(codex_results, mode))]
    /\ cx_pc' = "done"
    /\ UNCHANGED <<codex_results, cxOthers>>

NextCodex ==
    \/ CodexStart
    \/ CodexRunMode
    \/ CodexSummary

SpecCodex == InitCodex /\ [][NextCodex]_vars

-----------------------------------------------------------------------------
(* SpecRuns: a whole run of any one of the programs: the two perf gates,   *)
(* the token gate, the token efficiency benchmark or the Codex benchmark.  *)

InitRuns ==
    \/ InitMain
    \/ InitIndexMain
    \/ InitTokenGate
    \/ InitEngine
    \/ InitCodex

NextRuns ==
    \/ NextMain
    \/ NextIndexMain
    \/ NextTokenGate
    \/ NextEngine
    \/ NextCodex

SpecRuns == InitRuns /\ [][NextRuns]_vars

(***************************************************************************)
(* Claims about invocations that fail, time out or print no JSON           *)
(***************************************************************************)

\* the grep calls of token_gate that found nothing
GrepFoundNothing == {i \in DOMAIN tg_calls :
                        tg_calls[i].cmd = "grep" /\ tg_calls[i].returncode = 1}

C27_BenchmarkWitness ==
    e_pc = "done" /\ grep_run.returncode = 1 /\ cgrep_attempts # <<>>

\* C25: output of the collaborator tool that is no JSON is no evidence, and
\* the run goes on: the pool of ids of such a locate output is empty and
\* the benchmark does not exit, and token_gate does not end with an
\* exception raised by json.loads.
C25_NoUnhandledParseFailure ==
    /\ (locate_run # <<>> /\ ~locate_run.stdout.json) =>
          locate_ids = <<>> /\ e_pc # "exit"
    /\ tg_pc # "raised"

\* a run of token_gate ended without its summary: it could not measure
TokenGateCouldNotMeasure == tg_pc \in {"exited", "raised"} /\ tg_summary = <<>>

\* a run of agent_plan_perf_gate or index_perf_gate ended before the
\* regressions were computed: it could not measure
PerfGateCouldNotMeasure == pc \in {"exited", "raised"} /\ regressions = <<>>

\* C22: a run of a gate that could not measure ends with an exit status
\* other than 1, the status of a run that measured and failed the gate.
C22_CouldNotMeasureIsDistinct ==
    /\ TokenGateCouldNotMeasure => tg_exit # 1
    /\ PerfGateCouldNotMeasure => exit_status # 1

\* the row of a Codex run that ran into the timeout
TimedOut(row) == row.errors = <<"timeout after">>

\* the rows of a mode whose run did not time out
RECURSIVE CompletedRows(_)
CompletedRows(rows) ==
    IF rows = <<>> THEN <<>>
    ELSE IF TimedOut(Head(rows)) THEN CompletedRows(Tail(rows))
    ELSE <<Head(rows)>> \o CompletedRows(Tail(rows))

CodexStatistics ==
    {"median_total_tokens", "median_billable_tokens", "p95_billable_tokens",
     "median_duration_ms", "median_commands", "total_billable_tokens"}

\* C26: a Codex run that ran into the timeout is recorded with a reason no
\* run that exited carries, and the medians, the percentile and the total
\* of its mode are those of the rows that did not time out.
C26_TimeoutLeavesStatistics ==
    /\ \A i \in DOMAIN codex_results :
          TimedOut(codex_results[i]) =>
              /\ ~codex_results[i].success
              /\ codex_results[i].errors # <<"stderr">>
    /\ codex_summary # <<>> =>
          \A mode \in Range(CodexModes), k \in CodexStatistics :
              codex_summary[mode][k] =
                  aggregate_mode(CompletedRows(RowsOfMode(codex_results, mode)))[k]

(***************************************************************************)
(* Claims about runs that are rejected for their configuration             *)
(***************************************************************************)

\* the arguments of a run of agent_plan_perf_gate or of index_perf_gate are
\* rejected
PerfGateConfigError ==
    /\ gate \in {"agent_plan", "index"} /\ env # <<>>
    /\ \/ runs < 1 \/ warmup < 0 \/ files < 1
       \/ ~env.baseline_exists \/ ~env.candidate_exists

\* a tier plan of the benchmark is rejected: it is no list of positive
\* numbers, or its largest tier is above the limit of the pool
TierConfigError(raw, maximum) ==
    LET plan == parse_tiers(raw)
    IN  \/ plan.exc # "none"
        \/ \E i \in DOMAIN plan.val : plan.val[i] > maximum

BenchmarkConfigError ==
    /\ args # <<>>
    /\ \/ TierConfigError(args.baseline_file_tiers, args.baseline_max_files)
       \/ TierConfigError(args.cgrep_expand_tiers, args.expand_ids)

\* C21: a run whose configuration is rejected never executes a measured
\* invocation (index build, plan, search, grep, locate, expand): it stays
\* at its start until it ends, and it ends with a non-zero exit status.
C21_ConfigErrorBeforeMeasurement ==
    /\ PerfGateConfigError =>
          /\ invocations = 0 /\ baseline = <<>> /\ candidate = <<>>
          /\ pc \in {"start", "exited"}
          /\ pc = "exited" => exit_status > 0
    /\ BenchmarkConfigError =>
          /\ index_run = <<>> /\ grep_run = <<>> /\ locate_run = <<>>
          /\ expand_runs = <<>>
          /\ e_pc \in {"start", "exit"}
          /\ e_pc = "exit" => e_exit > 0

C21_Witness == BenchmarkConfigError /\ PlanAboveMaximum /\ e_pc = "exit"

\* a perf gate has rejected its arguments
C21_PerfGateWitness == PerfGateConfigError /\ pc = "exited" /\ gate = "index"

====
